---- MODULE Spec2Model ----
(***************************************************************************)
(* A model of the AvifNative pixel-conversion core of pdn-avif: the AV1    *)
(* decoder entry points (AV1Decoder.cpp), the decoded-image converter      *)
(* (DecodedImageConverter.cpp), the BGRA-to-planar encoder path            *)
(* (ChromaSubsampling.cpp, AvifNative.cpp) and the encoder of a planar     *)
(* image (YUVAImage.cpp, AV1Encoder.cpp).                                  *)
(*                                                                         *)
(* Conventions                                                             *)
(*  - uint32_t arithmetic is arithmetic modulo WordModulus = 2^WordBits.   *)
(*    The word is scaled down from 32 bits so that wrapped values stay     *)
(*    inside the model checker's integers; every wrap the code can make    *)
(*    at 32 bits is made here at WordBits bits.                            *)
(*  - float values are exact rationals [n, d] (d > 0, in lowest terms);    *)
(*    binary rounding error of the float type is not modelled. A channel   *)
(*    of a pixel holds such a value in every pixel format: an integer      *)
(*    channel holds RInt of its integer.                                   *)
(*  - enumerations are strings named after their enumerators.              *)
(*  - a pointer is a sequence: NULL, the empty one, is the null pointer    *)
(*    and <<v>> points to v.                                               *)
(***************************************************************************)
EXTENDS Integers, Sequences, FiniteSets, TLC

VARIABLES
    surface,     \* the caller's BitmapData: [width, height, format, px]
    decoders,    \* live ScopedAOMDecoder objects: handle id -> decoded frame
    imageHandle, \* the caller's DecoderImageHandle* slot written by DecoderLoadImage
    imageInfo,   \* the caller's DecoderImageInfo struct written by CopyFrameInfo
    call,        \* the last entry-point call: its arguments, its effects, its result
    log          \* the colour-tile conversions of the image so far, oldest first

vars == <<surface, decoders, imageHandle, imageInfo, call, log>>

NULL == <<>>

Ptr(v) == <<v>>

Deref(p) == p[1]

-----------------------------------------------------------------------------
(* Machine arithmetic *)

WordBits == 5

RECURSIVE Pow2(_)
Pow2(k) == IF k = 0 THEN 1 ELSE 2 * Pow2(k - 1)

WordModulus == Pow2(WordBits)

\* uint32_t wrap-around
U32(v) == v % WordModulus

Min(a, b) == IF a < b THEN a ELSE b

RECURSIVE Gcd(_, _)
Gcd(a, b) == IF b = 0 THEN a ELSE Gcd(b, a % b)

Abs(v) == IF v < 0 THEN -v ELSE v

(* float as an exact rational *)
Rat(n, d) ==
    LET g == Gcd(Abs(n), d)
    IN  IF n = 0 THEN [n |-> 0, d |-> 1] ELSE [n |-> n \div g, d |-> d \div g]

RInt(k) == [n |-> k, d |-> 1]

\* d = 0 marks a value that is not finite: n = 0 is NaN, n = 1 or -1 an infinity
IsFinite(a) == a.d # 0

RAdd(a, b) ==
    IF ~IsFinite(a) THEN a
    ELSE IF ~IsFinite(b) THEN b
    ELSE LET g == Gcd(a.d, b.d)
             l == (a.d \div g) * b.d
         IN  Rat(a.n * (l \div a.d) + b.n * (l \div b.d), l)

RNeg(a) == [n |-> -a.n, d |-> a.d]

RSub(a, b) == RAdd(a, RNeg(b))

RMul(a, b) ==
    LET g1 == Gcd(Abs(a.n), b.d)
        g2 == Gcd(Abs(b.n), a.d)
    IN  IF a.n = 0 \/ b.n = 0 THEN RInt(0)
        ELSE Rat((a.n \div g1) * (b.n \div g2), (a.d \div g2) * (b.d \div g1))

\* a / b; x / 0 is an infinity and 0 / 0 is NaN, as for float
RDiv(a, b) ==
    IF b.n = 0
    THEN [n |-> IF a.n > 0 THEN 1 ELSE IF a.n < 0 THEN -1 ELSE 0, d |-> 0]
    ELSE RMul(a, IF b.n > 0 THEN [n |-> b.d, d |-> b.n] ELSE [n |-> -b.d, d |-> -b.n])

RLess(a, b) == RSub(a, b).n < 0

\* conversion of a float to an integer type truncates toward zero
RTrunc(a) == IF a.n >= 0 THEN a.n \div a.d ELSE -((-a.n) \div a.d)

\* floorf
RFloor(a) == a.n \div a.d

RHalf == [n |-> 1, d |-> 2]

Clamp(value, min, max) ==
    IF RLess(value, min) THEN min
    ELSE IF RLess(max, value) THEN max
    ELSE value

avifRoundf(v) == RFloor(RAdd(v, RHalf))

\* n * s = q * d + r with 0 <= r < d, for n, s >= 0: the product is never formed
RECURSIVE MulDivMod(_, _, _)
MulDivMod(n, s, d) ==
    IF s = 0 THEN [q |-> 0, r |-> 0]
    ELSE LET h  == MulDivMod(n, s \div 2, d)
             r2 == 2 * h.r + (IF s % 2 = 1 THEN n % d ELSE 0)
             q2 == 2 * h.q + (IF s % 2 = 1 THEN n \div d ELSE 0)
         IN  [q |-> q2 + (r2 \div d), r |-> r2 % d]

\* static_cast<integer>(0.5f + (v * max)) for a v that is not negative
ScaleRound(v, max) ==
    LET m == MulDivMod(v.n, max, v.d)
    IN  m.q + (IF 2 * m.r >= v.d THEN 1 ELSE 0)

\* int / 2 in C++ truncates toward zero
CDiv2(v) == IF v >= 0 THEN v \div 2 ELSE -((-v) \div 2)

-----------------------------------------------------------------------------
(* Data model *)

\* DecoderStatus (AvifNative.h) with the enumerator the converter also returns
DecoderStatus ==
    {"Ok", "NullParameter", "OutOfMemory", "CodecInitFailed", "DecodeFailed",
     "UnsupportedBitDepth", "UnknownYUVFormat", "UnsupportedOutputPixelFormat"}

\* BitmapDataPixelFormat; "Other" is any value that is none of the three
BitmapDataPixelFormat == {"Bgra32", "Rgba64", "Rgba128Float", "Other"}

\* aom_img_fmt_t: planar formats the converter distinguishes
HighBitDepthFormats == {"I42016", "I42216", "I44416", "YV1216"}
UVFlipFormats == {"YV12", "AOMYV12", "YV1216"}
Formats420 == {"I420", "AOMI420", "I42016", "YV12", "AOMYV12", "YV1216"}
Formats422 == {"I422", "I42216"}
Formats444 == {"I444", "I44416"}

\* aom_image_t geometry that libaom derives from fmt
XChromaShift(fmt) == IF fmt \in Formats420 \cup Formats422 THEN 1 ELSE 0
YChromaShift(fmt) == IF fmt \in Formats420 THEN 1 ELSE 0

\* width or height of a chroma plane: (d + shift) >> shift
ChromaExtent(d, shift) == (d + shift) \div Pow2(shift)

\* bytes per stored sample of the frame
BytesPerSample(image) == IF image.fmt \in HighBitDepthFormats THEN 2 ELSE 1

\* whether (x, y) is a sample of the plane
InPlane(image, plane, x, y) ==
    LET luma == plane = "Y"
        w == IF luma THEN image.d_w ELSE ChromaExtent(image.d_w, XChromaShift(image.fmt))
        h == IF luma THEN image.d_h ELSE ChromaExtent(image.d_h, YChromaShift(image.fmt))
    IN  x < w /\ y < h

\* the sample of a plane at (x, y)
PlaneSample(image, plane, x, y) ==
    LET w == IF plane = "Y" THEN image.d_w
             ELSE ChromaExtent(image.d_w, XChromaShift(image.fmt))
    IN  image.planes[plane][y * w + x]

\* ptr[x] of a uint8_t* row pointer: the value, and whether the byte lies in
\* the plane (a read outside it is undefined behaviour)
ReadUInt8(image, plane, x, y) ==
    IF BytesPerSample(image) = 1
    THEN IF InPlane(image, plane, x, y)
         THEN [v |-> PlaneSample(image, plane, x, y), ok |-> TRUE]
         ELSE [v |-> 0, ok |-> FALSE]
    ELSE IF InPlane(image, plane, x \div 2, y)
         THEN LET s == PlaneSample(image, plane, x \div 2, y)
              IN  [v |-> IF x % 2 = 0 THEN s % 256 ELSE s \div 256, ok |-> TRUE]
         ELSE [v |-> 0, ok |-> FALSE]

\* ptr[x] of a uint16_t* row pointer
ReadUInt16(image, plane, x, y) ==
    IF BytesPerSample(image) = 2
    THEN IF InPlane(image, plane, x, y)
         THEN [v |-> PlaneSample(image, plane, x, y), ok |-> TRUE]
         ELSE [v |-> 0, ok |-> FALSE]
    ELSE IF InPlane(image, plane, 2 * x + 1, y)
         THEN [v |-> PlaneSample(image, plane, 2 * x, y)
                     + 256 * PlaneSample(image, plane, 2 * x + 1, y), ok |-> TRUE]
         ELSE [v |-> 0, ok |-> FALSE]

-----------------------------------------------------------------------------
(* DecodedImageConverter.cpp: tile placement *)

GetCopySizes(image, tileColumnIndex, tileRowIndex, outputImage) ==
    LET maxWidth  == U32(image.d_w * (tileColumnIndex + 1))
        maxHeight == U32(image.d_h * (tileRowIndex + 1))
    IN  [copyWidth  |-> IF maxWidth > outputImage.width
                        THEN U32(image.d_w - U32(maxWidth - outputImage.width))
                        ELSE image.d_w,
         copyHeight |-> IF maxHeight > outputImage.height
                        THEN U32(image.d_h - U32(maxHeight - outputImage.height))
                        ELSE image.d_h]

-----------------------------------------------------------------------------
(* YUVConversionHelpers.cpp *)

\* matrixCoefficientsTables: kr and kb in units of 1/10000
matrixCoefficientsTables ==
    [BT709     |-> [kr |-> 2126, kb |-> 722],
     FCC       |-> [kr |-> 3000, kb |-> 1100],
     BT470BG   |-> [kr |-> 2990, kb |-> 1140],
     BT601     |-> [kr |-> 2990, kb |-> 1140],
     Smpte240  |-> [kr |-> 2120, kb |-> 870],
     BT2020NCL |-> [kr |-> 2627, kb |-> 593]]

Coefficiants(kr, kb) ==
    [kr |-> kr, kg |-> RSub(RSub(RInt(1), kr), kb), kb |-> kb]

\* avifColourPrimariesTables: rX, rY, gX, gY, bX, bY, wX, wY in units of 1/10000
avifColourPrimariesTables ==
    [BT709       |-> <<6400, 3300, 3000, 6000, 1500, 600, 3127, 3290>>,
     BT470M      |-> <<6700, 3300, 2100, 7100, 1400, 800, 3100, 3160>>,
     BT470BG     |-> <<6400, 3300, 2900, 6000, 1500, 600, 3127, 3290>>,
     BT601       |-> <<6300, 3400, 3100, 5950, 1550, 700, 3127, 3290>>,
     Smpte240    |-> <<6300, 3400, 3100, 5950, 1550, 700, 3127, 3290>>,
     GenericFilm |-> <<6810, 3190, 2430, 6920, 1450, 490, 3100, 3160>>,
     BT2020      |-> <<7080, 2920, 1700, 7970, 1310, 460, 3127, 3290>>,
     Xyz         |-> <<10000, 0, 0, 10000, 0, 0, 3333, 3333>>,
     Smpte431    |-> <<6800, 3200, 2650, 6900, 1500, 600, 3140, 3510>>,
     Smpte432    |-> <<6800, 3200, 2650, 6900, 1500, 600, 3127, 3290>>,
     Ebu3213     |-> <<6300, 3400, 2950, 6050, 1550, 770, 3127, 3290>>]

\* outPrimaries: the row of the table, the first row for primaries the table
\* does not hold
avifNclxColourPrimariesGetValues(ancp) ==
    LET row == IF ancp \in DOMAIN avifColourPrimariesTables
               THEN avifColourPrimariesTables[ancp]
               ELSE avifColourPrimariesTables.BT709
    IN  [i \in 1 .. 8 |-> Rat(row[i], 10000)]

\* a * b - c * d
RCross(a, b, c, d) == RSub(RMul(a, b), RMul(c, d))

\* wX * x + wY * y + wZ * z
RDot(wX, x, wY, y, wZ, z) == RAdd(RAdd(RMul(wX, x), RMul(wY, y)), RMul(wZ, z))

\* equations 32 to 37 of the chromaticity-derived branch: kr and kb
ChromaticityDerived(primaries) ==
    LET rX == primaries[1]
        rY == primaries[2]
        gX == primaries[3]
        gY == primaries[4]
        bX == primaries[5]
        bY == primaries[6]
        wX == primaries[7]
        wY == primaries[8]
        rZ == RSub(RInt(1), RAdd(rX, rY))
        gZ == RSub(RInt(1), RAdd(gX, gY))
        bZ == RSub(RInt(1), RAdd(bX, bY))
        wZ == RSub(RInt(1), RAdd(wX, wY))
        den == RMul(wY, RDot(rX, RCross(gY, bZ, bY, gZ),
                             gX, RCross(bY, rZ, rY, bZ),
                             bX, RCross(rY, gZ, gY, rZ)))
    IN  [kr |-> RDiv(RMul(rY, RDot(wX, RCross(gY, bZ, bY, gZ),
                                   wY, RCross(bX, gZ, gX, bZ),
                                   wZ, RCross(gX, bY, bX, gY))), den),
         kb |-> RDiv(RMul(bY, RDot(wX, RCross(rY, gZ, gY, rZ),
                                   wY, RCross(gX, rZ, rX, gZ),
                                   wZ, RCross(rX, gY, gX, rY))), den)]

\* CICPEnums.h: the colour primaries
CICPColorPrimaries ==
    {"BT709", "Unspecified", "BT470M", "BT470BG", "BT601", "Smpte240", "GenericFilm",
     "BT2020", "Xyz", "Smpte431", "Smpte432", "Ebu3213"}

\* kr and kb of the chromaticity-derived branch for each colour primaries; the
\* exact intermediate products of the BT.2020 primaries leave the integers
ChromaticityDerivedCoefficiants ==
    [cp \in CICPColorPrimaries \ {"BT2020"} |->
        ChromaticityDerived(avifNclxColourPrimariesGetValues(cp))]

\* the function with the chromaticity-derived branch left out
calcYUVInfoFromCICPTablesOnly(cicp) ==
    IF cicp.matrixCoefficients \in DOMAIN matrixCoefficientsTables
    THEN LET t == matrixCoefficientsTables[cicp.matrixCoefficients]
         IN  <<TRUE, Coefficiants(Rat(t.kr, 10000), Rat(t.kb, 10000))>>
    ELSE <<FALSE, Coefficiants(RInt(0), RInt(0))>>

\* the result is <<found, coeffs>>
calcYUVInfoFromCICP(cicp) ==
    IF cicp.matrixCoefficients = "CromatNCL"
    THEN <<TRUE, Coefficiants(ChromaticityDerivedCoefficiants[cicp.colorPrimaries].kr,
                              ChromaticityDerivedCoefficiants[cicp.colorPrimaries].kb)>>
    ELSE IF cicp.matrixCoefficients \in DOMAIN matrixCoefficientsTables
    THEN LET t == matrixCoefficientsTables[cicp.matrixCoefficients]
         IN  <<TRUE, Coefficiants(Rat(t.kr, 10000), Rat(t.kb, 10000))>>
    ELSE <<FALSE, Coefficiants(RInt(0), RInt(0))>>

GetYUVCoefficiants(colorInfo) ==
    LET c == calcYUVInfoFromCICP(colorInfo)
    IN  IF c[1] THEN c[2] ELSE Coefficiants(Rat(299, 1000), Rat(114, 1000))

-----------------------------------------------------------------------------
(* DecodedImageConverter.cpp: decode mode and lookup tables *)

\* a decode mode taken from the matrix coefficients alone, whatever the frame format
GetYUVDecodeInfoAnyFormat(image, colorInfo) ==
    LET mode ==
            IF colorInfo.matrixCoefficients \in {"YCgCo", "YCgCoRe", "YCgCoRo"}
            THEN colorInfo.matrixCoefficients
            ELSE "YUVCoefficiants"
    IN  [mode |-> mode,
         yuvCoefficiants |->
            IF mode = "YUVCoefficiants"
            THEN GetYUVCoefficiants(colorInfo)
            ELSE [kr |-> RInt(0), kg |-> RInt(0), kb |-> RInt(0)]]

GetYUVDecodeInfo(image, colorInfo) ==
    LET mode ==
            IF image.fmt \in {"I444", "I44416"}
            THEN IF colorInfo.matrixCoefficients \in {"YCgCo", "YCgCoRe", "YCgCoRo"}
                 THEN colorInfo.matrixCoefficients
                 ELSE "YUVCoefficiants"
            ELSE "YUVCoefficiants"
    IN  [mode |-> mode,
         yuvCoefficiants |->
            IF mode = "YUVCoefficiants"
            THEN GetYUVCoefficiants(colorInfo)
            ELSE [kr |-> RInt(0), kg |-> RInt(0), kb |-> RInt(0)]]

\* the bit depths for which the YUVLookupTables constructor does not throw
SupportedBitDepths == {8, 10, 12, 16}

yuvMaxChannel(image) == Pow2(image.bit_depth) - 1

limitedRangeShift(image) == image.bit_depth - 8

\* the luma entry with the range of the chroma codes, 224, for the range
unormFloatTableYChromaRange(image, i) ==
    LET biasY  == IF image.range = "StudioRange" THEN 16 * Pow2(limitedRangeShift(image)) ELSE 0
        rangeY == IF image.range = "StudioRange" THEN 224 * Pow2(limitedRangeShift(image))
                  ELSE yuvMaxChannel(image)
    IN  Rat(i - biasY, rangeY)

unormFloatTableY(image, i) ==
    LET biasY  == IF image.range = "StudioRange" THEN 16 * Pow2(limitedRangeShift(image)) ELSE 0
        rangeY == IF image.range = "StudioRange" THEN 219 * Pow2(limitedRangeShift(image))
                  ELSE yuvMaxChannel(image)
    IN  Rat(i - biasY, rangeY)

unormFloatTableUV(image, isIdentityMatrix, i) ==
    LET biasUV  == Pow2(image.bit_depth - 1)
        rangeUV == IF image.range = "StudioRange" THEN 224 * Pow2(limitedRangeShift(image))
                   ELSE yuvMaxChannel(image)
    IN  IF isIdentityMatrix THEN unormFloatTableY(image, i) ELSE Rat(i - biasUV, rangeUV)

\* BuildIdentity8LimitedToFullYLookupTable: table[i]
limitedToFullY(i) == RTrunc(Rat(i - 16, 224)) % 256

\* a conversion of a float to an unsigned integer type with maximum max: the
\* value is 0.5f + (v * max); a result the type cannot hold is undefined
\* behaviour, which a build resolves by wrapping or by saturating (ub). The
\* integer is given as a channel value, RInt of it
StaticCastUInt(v, max, ub) ==
    LET m == MulDivMod(Abs(v.n), max, v.d)
        w == m.q - (IF 2 * m.r >= v.d THEN 0 ELSE 1)
        t == IF v.n >= 0 THEN ScaleRound(v, max) ELSE IF w <= 0 THEN 0 ELSE -w
    IN  RInt(IF 0 <= t /\ t <= max THEN t
             ELSE IF ub = "wrap" THEN t % (max + 1)
             ELSE IF t < 0 THEN 0 ELSE max)

-----------------------------------------------------------------------------
(* DecodedImageConverter.cpp: the per-pixel body of each conversion routine. *)
(* Every operator gives the channels the routine stores into *dstPtr for the  *)
(* loop indexes (x, y).                                                       *)

uPlaneIndex(image) == IF image.fmt \in UVFlipFormats THEN "V" ELSE "U"
vPlaneIndex(image) == IF image.fmt \in UVFlipFormats THEN "U" ELSE "V"

\* a chroma index that is the luma position itself
ChromaIndexUnshifted(image, x, y) == <<x, y>>

\* (uvI, uvJ) of the loops: x >> image->x_chroma_shift and
\* y >> image->y_chroma_shift
ChromaIndex(image, x, y) ==
    <<x \div Pow2(XChromaShift(image.fmt)), y \div Pow2(YChromaShift(image.fmt))>>

\* the three samples a 16-bit routine reads, clamped to the lookup table
\* range; okY and ok tell whether the luma read and all three reads lie in
\* their planes
Unorm16(image, x, y) ==
    LET uvI == ChromaIndex(image, x, y)[1]
        uvJ == ChromaIndex(image, x, y)[2]
        sY == ReadUInt16(image, "Y", x, y)
        sU == ReadUInt16(image, uPlaneIndex(image), uvI, uvJ)
        sV == ReadUInt16(image, vPlaneIndex(image), uvI, uvJ)
    IN  [Y |-> Min(sY.v, yuvMaxChannel(image)),
         U |-> Min(sU.v, yuvMaxChannel(image)),
         V |-> Min(sV.v, yuvMaxChannel(image)),
         okY |-> sY.ok, ok |-> sY.ok /\ sU.ok /\ sV.ok]

\* the three samples an 8-bit routine reads
Unorm8(image, x, y) ==
    LET uvI == ChromaIndex(image, x, y)[1]
        uvJ == ChromaIndex(image, x, y)[2]
        sY == ReadUInt8(image, "Y", x, y)
        sU == ReadUInt8(image, uPlaneIndex(image), uvI, uvJ)
        sV == ReadUInt8(image, vPlaneIndex(image), uvI, uvJ)
    IN  [Y |-> sY.v, U |-> sU.v, V |-> sV.v,
         okY |-> sY.ok, ok |-> sY.ok /\ sU.ok /\ sV.ok]

\* what a routine stores for a pixel whose samples it read outside the frame:
\* undefined behaviour, the channels hold an arbitrary value, junk
JunkColor(junk) == [r |-> RInt(junk), g |-> RInt(junk), b |-> RInt(junk)]
JunkAlpha(junk) == [a |-> RInt(junk)]

\* the YCgCo and the coefficient branches shared by the YUV colour routines
YUVToRGB(yuvDecodeInfo, Y, Cb, Cr) ==
    LET kr == yuvDecodeInfo.yuvCoefficiants.kr
        kg == yuvDecodeInfo.yuvCoefficiants.kg
        kb == yuvDecodeInfo.yuvCoefficiants.kb
        one == RInt(1)
        two == RInt(2)
        t == RSub(Y, Cb)
    IN  IF yuvDecodeInfo.mode = "YCgCo"
        THEN [r |-> RAdd(t, Cr), g |-> RAdd(Y, Cb), b |-> RSub(t, Cr)]
        ELSE [r |-> RAdd(Y, RMul(RMul(two, RSub(one, kr)), Cr)),
              b |-> RAdd(Y, RMul(RMul(two, RSub(one, kb)), Cb)),
              g |-> RSub(Y, RDiv(RMul(two, RAdd(RMul(RMul(kr, RSub(one, kr)), Cr),
                                                RMul(RMul(kb, RSub(one, kb)), Cb))),
                                 kg))]

\* formulas 62 to 65 of the YCgCo-R routines; the result is in units of 1/rgbMaxChannel
YCoCgRToRGB(image, u, rgbMaxChannel) ==
    LET Cb == unormFloatTableUV(image, FALSE, u.U)
        Cr == unormFloatTableUV(image, FALSE, u.V)
        YY == u.Y
        Cg == avifRoundf(RMul(Cb, RInt(yuvMaxChannel(image))))
        Co == avifRoundf(RMul(Cr, RInt(yuvMaxChannel(image))))
        t  == YY - CDiv2(Cg)
        G  == Clamp(RInt(t + Cg), RInt(0), RInt(rgbMaxChannel))
        B  == Clamp(RInt(t - CDiv2(Co)), RInt(0), RInt(rgbMaxChannel))
        R  == Clamp(RAdd(B, RInt(Co)), RInt(0), RInt(rgbMaxChannel))
    IN  [r |-> Clamp(RDiv(R, RInt(rgbMaxChannel)), RInt(0), RInt(1)),
         g |-> Clamp(RDiv(G, RInt(rgbMaxChannel)), RInt(0), RInt(1)),
         b |-> Clamp(RDiv(B, RInt(rgbMaxChannel)), RInt(0), RInt(1))]

Identity16ToRGB32Color(image, x, y, junk, ub) ==
    LET u == Unorm16(image, x, y)
    IN  IF ~u.ok THEN JunkColor(junk)
        ELSE [r |-> unormFloatTableUV(image, TRUE, u.V),
              g |-> unormFloatTableY(image, u.Y),
              b |-> unormFloatTableUV(image, TRUE, u.U)]

Identity16ToRGB32Mono(image, x, y, junk, ub) ==
    LET u == Unorm16(image, x, y)
        Y == unormFloatTableY(image, u.Y)
    IN  IF ~u.okY THEN JunkColor(junk) ELSE [r |-> Y, g |-> Y, b |-> Y]

Identity16ToRGB16Color(image, x, y, junk, ub) ==
    LET u == Unorm16(image, x, y)
        R == Clamp(unormFloatTableUV(image, TRUE, u.V), RInt(0), RInt(1))
        G == Clamp(unormFloatTableY(image, u.Y), RInt(0), RInt(1))
        B == Clamp(unormFloatTableUV(image, TRUE, u.U), RInt(0), RInt(1))
    IN  IF ~u.ok THEN JunkColor(junk)
        ELSE [r |-> StaticCastUInt(R, 65535, ub),
              g |-> StaticCastUInt(G, 65535, ub),
              b |-> StaticCastUInt(B, 65535, ub)]

Identity16ToRGB16Mono(image, x, y, junk, ub) ==
    LET u == Unorm16(image, x, y)
        Y == Clamp(unormFloatTableY(image, u.Y), RInt(0), RInt(1))
        gray == StaticCastUInt(Y, 65535, ub)
    IN  IF ~u.okY THEN JunkColor(junk) ELSE [r |-> gray, g |-> gray, b |-> gray]

Identity8ToRGB8Color(image, x, y, junk, ub) ==
    LET u == Unorm8(image, x, y)
        studio == image.range = "StudioRange"
    IN  IF ~u.ok THEN JunkColor(junk)
        ELSE [g |-> RInt(IF studio THEN limitedToFullY(u.Y) ELSE u.Y),
              b |-> RInt(IF studio THEN limitedToFullY(u.U) ELSE u.U),
              r |-> RInt(IF studio THEN limitedToFullY(u.V) ELSE u.V)]

Identity8ToRGB8Mono(image, x, y, junk, ub) ==
    LET u == Unorm8(image, x, y)
        gray == RInt(IF image.range = "StudioRange" THEN limitedToFullY(u.Y) ELSE u.Y)
    IN  IF ~u.okY THEN JunkColor(junk) ELSE [r |-> gray, g |-> gray, b |-> gray]

YUV16ToRGB32Color(image, yuvDecodeInfo, x, y, junk, ub) ==
    LET u == Unorm16(image, x, y)
    IN  IF ~u.ok THEN JunkColor(junk)
        ELSE YUVToRGB(yuvDecodeInfo,
                      unormFloatTableY(image, u.Y),
                      unormFloatTableUV(image, FALSE, u.U),
                      unormFloatTableUV(image, FALSE, u.V))

YUV16ToRGB32Mono(image, x, y, junk, ub) ==
    LET u == Unorm16(image, x, y)
        Y == Clamp(unormFloatTableY(image, u.Y), RInt(0), RInt(1))
    IN  IF ~u.okY THEN JunkColor(junk) ELSE [r |-> Y, g |-> Y, b |-> Y]

YUV16ToRGB16Color(image, yuvDecodeInfo, x, y, junk, ub) ==
    LET u == Unorm16(image, x, y)
        c == YUVToRGB(yuvDecodeInfo,
                      unormFloatTableY(image, u.Y),
                      unormFloatTableUV(image, FALSE, u.U),
                      unormFloatTableUV(image, FALSE, u.V))
    IN  IF ~u.ok THEN JunkColor(junk)
        ELSE [r |-> StaticCastUInt(Clamp(c.r, RInt(0), RInt(1)), 65535, ub),
              g |-> StaticCastUInt(Clamp(c.g, RInt(0), RInt(1)), 65535, ub),
              b |-> StaticCastUInt(Clamp(c.b, RInt(0), RInt(1)), 65535, ub)]

YUV16ToRGB16Mono(image, x, y, junk, ub) ==
    LET u == Unorm16(image, x, y)
        Y == Clamp(unormFloatTableY(image, u.Y), RInt(0), RInt(1))
        clampedGray == StaticCastUInt(Y, 65535, ub)
    IN  IF ~u.okY THEN JunkColor(junk)
        ELSE [r |-> clampedGray, g |-> clampedGray, b |-> clampedGray]

YUV16ToRGB16ColorYCoCgR(image, x, y, junk, ub) ==
    LET u == Unorm16(image, x, y)
        c == YCoCgRToRGB(image, u, 65535)
    IN  IF ~u.ok THEN JunkColor(junk)
        ELSE [r |-> StaticCastUInt(c.r, 65535, ub),
              g |-> StaticCastUInt(c.g, 65535, ub),
              b |-> StaticCastUInt(c.b, 65535, ub)]

YUV16ToRGB8ColorYCoCgR(image, x, y, junk, ub) ==
    LET u == Unorm16(image, x, y)
        c == YCoCgRToRGB(image, u, 255)
    IN  IF ~u.ok THEN JunkColor(junk)
        ELSE [r |-> StaticCastUInt(c.r, 255, ub),
              g |-> StaticCastUInt(c.g, 255, ub),
              b |-> StaticCastUInt(c.b, 255, ub)]

YUV8ToRGB8Color(image, yuvDecodeInfo, x, y, junk, ub) ==
    LET u == Unorm8(image, x, y)
        c == YUVToRGB(yuvDecodeInfo,
                      unormFloatTableY(image, u.Y),
                      unormFloatTableUV(image, FALSE, u.U),
                      unormFloatTableUV(image, FALSE, u.V))
    IN  IF ~u.ok THEN JunkColor(junk)
        ELSE [r |-> StaticCastUInt(Clamp(c.r, RInt(0), RInt(1)), 255, ub),
              g |-> StaticCastUInt(Clamp(c.g, RInt(0), RInt(1)), 255, ub),
              b |-> StaticCastUInt(Clamp(c.b, RInt(0), RInt(1)), 255, ub)]

\* the table value goes to the cast as it is
YUV8ToRGB8Mono(image, x, y, junk, ub) ==
    LET u == Unorm8(image, x, y)
        Y == unormFloatTableY(image, u.Y)
        clampedGray == StaticCastUInt(Y, 255, ub)
    IN  IF ~u.okY THEN JunkColor(junk)
        ELSE [r |-> clampedGray, g |-> clampedGray, b |-> clampedGray]

YUV16ToAlpha32(image, x, y, junk, ub) ==
    LET u == Unorm16(image, x, y)
    IN  IF ~u.okY THEN JunkAlpha(junk)
        ELSE [a |-> Clamp(unormFloatTableY(image, u.Y), RInt(0), RInt(1))]

YUV16ToAlpha16(image, x, y, junk, ub) ==
    LET u == Unorm16(image, x, y)
        A == Clamp(unormFloatTableY(image, u.Y), RInt(0), RInt(1))
    IN  IF ~u.okY THEN JunkAlpha(junk) ELSE [a |-> StaticCastUInt(A, 65535, ub)]

YUV8ToAlpha8(image, x, y, junk, ub) ==
    LET u == Unorm8(image, x, y)
        A == Clamp(unormFloatTableY(image, u.Y), RInt(0), RInt(1))
    IN  IF ~u.okY THEN JunkAlpha(junk) ELSE [a |-> StaticCastUInt(A, 255, ub)]

-----------------------------------------------------------------------------
(* DecodedImageConverter.cpp: the copy loops *)

Channels == {"b", "g", "r", "a"}

\* the pixel index of the store the loops make for (x, y): destY rows of
\* outputImage->stride bytes plus destX pixels, then x increments of dstPtr;
\* size_t arithmetic, one scanline being width pixels
DestIndex(image, tileColumnIndex, tileRowIndex, outputImage, x, y) ==
    (y + tileRowIndex * image.d_h) * outputImage.width
        + tileColumnIndex * image.d_w + x

\* the values a loop counter of the copy loops can take
LoopIndexes == 0 .. WordModulus - 1

\* the surface after the loops of a routine whose per-pixel body gives
\* Body[x, y] for the loop indexes (x, y): each
\* store inside the pixel buffer replaces the stored channels (of the stores
\* to one pixel the last, the one of the greatest y, stays); oob tells that
\* some store fell outside the buffer
CopyLoops(Body, image, tileColumnIndex, tileRowIndex, outputImage) ==
    LET copy == GetCopySizes(image, tileColumnIndex, tileRowIndex, outputImage)
        size == outputImage.width * outputImage.height
        rowStart(y) == DestIndex(image, tileColumnIndex, tileRowIndex, outputImage, 0, y)
        rows(i) == {y \in 0 .. copy.copyHeight - 1 :
                        rowStart(y) <= i /\ i < rowStart(y) + copy.copyWidth}
        lastY(i) == CHOOSE y \in rows(i) : \A o \in rows(i) : o <= y
        store(old, new) == [c \in Channels |-> IF c \in DOMAIN new THEN new[c] ELSE old[c]]
    IN  [px  |-> [i \in 0 .. size - 1 |->
                    IF rows(i) = {} THEN outputImage.px[i]
                    ELSE store(outputImage.px[i], Body[i - rowStart(lastY(i)), lastY(i)])],
         oob |-> \E y \in 0 .. copy.copyHeight - 1 :
                    copy.copyWidth > 0 /\ rowStart(y) + copy.copyWidth > size]

\* the loop indexes (x, y) whose store goes to pixel index i: one store for
\* each x below copyWidth and y below copyHeight
StoresTo(image, tileColumnIndex, tileRowIndex, outputImage, i) ==
    LET copy == GetCopySizes(image, tileColumnIndex, tileRowIndex, outputImage)
    IN  {p \in (0 .. copy.copyWidth - 1) \X (0 .. copy.copyHeight - 1) :
            DestIndex(image, tileColumnIndex, tileRowIndex, outputImage, p[1], p[2]) = i}

\* the pixel indexes the loops store to, inside the pixel buffer and past it
StoredIndexes(image, tileColumnIndex, tileRowIndex, outputImage) ==
    LET copy == GetCopySizes(image, tileColumnIndex, tileRowIndex, outputImage)
    IN  {DestIndex(image, tileColumnIndex, tileRowIndex, outputImage, p[1], p[2]) :
            p \in (0 .. copy.copyWidth - 1) \X (0 .. copy.copyHeight - 1)}

-----------------------------------------------------------------------------
(* DecodedImageConverter.cpp: the two converters. The result is the status, *)
(* the pixels of the output surface after the call, whether a store fell     *)
(* outside the pixel buffer, and the routine that ran.                       *)

\* a return without a copy that leaves the first pixel of the surface cleared
NoCopyCleared(outputImage, status) ==
    [status |-> status,
     px |-> IF outputImage = NULL THEN <<>>
            ELSE [i \in DOMAIN Deref(outputImage).px |->
                    IF i = 0 THEN [c \in Channels |-> RInt(0)]
                    ELSE Deref(outputImage).px[i]],
     oob |-> FALSE, routine |-> "none"]

NoCopy(outputImage, status) ==
    [status |-> status,
     px |-> IF outputImage = NULL THEN <<>> ELSE Deref(outputImage).px,
     oob |-> FALSE, routine |-> "none"]

Copied(loops, routine) ==
    [status |-> "Ok", px |-> loops.px, oob |-> loops.oob, routine |-> routine]

\* std::make_unique<YUVLookupTables>(frame, isIdentityMatrix): the exception
\* it leaves with, "none" when the tables are built; alloc tells whether the
\* allocations succeed
YUVLookupTables(image, alloc) ==
    IF ~alloc THEN "bad_alloc"
    ELSE IF image.bit_depth \notin SupportedBitDepths THEN "unknown_bit_depth_error"
    ELSE "none"

ConvertColorImage(frame, colorInfo, tileColumnIndex, tileRowIndex, outputImage, alloc, junk, ub) ==
    IF frame = NULL \/ colorInfo = NULL \/ outputImage = NULL
    THEN NoCopy(outputImage, "NullParameter")
    ELSE
    LET image  == Deref(frame)
        info   == Deref(colorInfo)
        out    == Deref(outputImage)
        mc     == info.matrixCoefficients
        thrown == YUVLookupTables(image, alloc)
        yuvDecodeInfo == GetYUVDecodeInfo(image, info)
        isYCoCgR == mc \in {"YCgCoRe", "YCgCoRo"}
        Run(Body, routine) ==
            Copied(CopyLoops(Body, image, tileColumnIndex, tileRowIndex, out), routine)
        Caught ==
            NoCopy(outputImage, IF thrown = "bad_alloc" THEN "OutOfMemory" ELSE "UnsupportedBitDepth")
    IN  IF mc = "Identity"
        THEN IF out.format = "Bgra32"
             THEN IF image.monochrome
                  THEN Run([x \in LoopIndexes, y \in LoopIndexes |-> Identity8ToRGB8Mono(image, x, y, junk, ub)], "Identity8ToRGB8Mono")
                  ELSE Run([x \in LoopIndexes, y \in LoopIndexes |-> Identity8ToRGB8Color(image, x, y, junk, ub)], "Identity8ToRGB8Color")
             ELSE IF thrown # "none" THEN Caught
             ELSE IF out.format = "Rgba64"
             THEN IF image.monochrome
                  THEN Run([x \in LoopIndexes, y \in LoopIndexes |-> Identity16ToRGB16Mono(image, x, y, junk, ub)], "Identity16ToRGB16Mono")
                  ELSE Run([x \in LoopIndexes, y \in LoopIndexes |-> Identity16ToRGB16Color(image, x, y, junk, ub)], "Identity16ToRGB16Color")
             ELSE IF out.format = "Rgba128Float"
             THEN IF image.monochrome
                  THEN Run([x \in LoopIndexes, y \in LoopIndexes |-> Identity16ToRGB32Mono(image, x, y, junk, ub)], "Identity16ToRGB32Mono")
                  ELSE Run([x \in LoopIndexes, y \in LoopIndexes |-> Identity16ToRGB32Color(image, x, y, junk, ub)], "Identity16ToRGB32Color")
             ELSE NoCopy(outputImage, "UnsupportedOutputPixelFormat")
        ELSE IF thrown # "none" THEN Caught
        ELSE IF out.format = "Bgra32"
        THEN IF image.monochrome
             THEN Run([x \in LoopIndexes, y \in LoopIndexes |-> YUV8ToRGB8Mono(image, x, y, junk, ub)], "YUV8ToRGB8Mono")
             ELSE IF isYCoCgR
             THEN Run([x \in LoopIndexes, y \in LoopIndexes |-> YUV16ToRGB8ColorYCoCgR(image, x, y, junk, ub)], "YUV16ToRGB8ColorYCoCgR")
             ELSE Run([x \in LoopIndexes, y \in LoopIndexes |-> YUV8ToRGB8Color(image, yuvDecodeInfo, x, y, junk, ub)], "YUV8ToRGB8Color")
        ELSE IF out.format = "Rgba64"
        THEN IF image.monochrome
             THEN Run([x \in LoopIndexes, y \in LoopIndexes |-> YUV16ToRGB16Mono(image, x, y, junk, ub)], "YUV16ToRGB16Mono")
             ELSE IF isYCoCgR
             THEN Run([x \in LoopIndexes, y \in LoopIndexes |-> YUV16ToRGB16ColorYCoCgR(image, x, y, junk, ub)], "YUV16ToRGB16ColorYCoCgR")
             ELSE Run([x \in LoopIndexes, y \in LoopIndexes |-> YUV16ToRGB16Color(image, yuvDecodeInfo, x, y, junk, ub)], "YUV16ToRGB16Color")
        ELSE IF out.format = "Rgba128Float"
        THEN IF image.monochrome
             THEN Run([x \in LoopIndexes, y \in LoopIndexes |-> YUV16ToRGB32Mono(image, x, y, junk, ub)], "YUV16ToRGB32Mono")
             ELSE Run([x \in LoopIndexes, y \in LoopIndexes |-> YUV16ToRGB32Color(image, yuvDecodeInfo, x, y, junk, ub)], "YUV16ToRGB32Color")
        ELSE NoCopy(outputImage, "UnsupportedOutputPixelFormat")

ConvertAlphaImage(frame, tileColumnIndex, tileRowIndex, outputImage, alloc, junk, ub) ==
    IF frame = NULL \/ outputImage = NULL
    THEN NoCopy(outputImage, "NullParameter")
    ELSE
    LET image  == Deref(frame)
        out    == Deref(outputImage)
        thrown == YUVLookupTables(image, alloc)
        Run(Body, routine) ==
            Copied(CopyLoops(Body, image, tileColumnIndex, tileRowIndex, out), routine)
    IN  IF thrown # "none"
        THEN NoCopy(outputImage, IF thrown = "bad_alloc" THEN "OutOfMemory" ELSE "UnsupportedBitDepth")
        ELSE IF out.format = "Bgra32"
        THEN Run([x \in LoopIndexes, y \in LoopIndexes |-> YUV8ToAlpha8(image, x, y, junk, ub)], "YUV8ToAlpha8")
        ELSE IF out.format = "Rgba64"
        THEN Run([x \in LoopIndexes, y \in LoopIndexes |-> YUV16ToAlpha16(image, x, y, junk, ub)], "YUV16ToAlpha16")
        ELSE IF out.format = "Rgba128Float"
        THEN Run([x \in LoopIndexes, y \in LoopIndexes |-> YUV16ToAlpha32(image, x, y, junk, ub)], "YUV16ToAlpha32")
        ELSE NoCopy(outputImage, "UnsupportedOutputPixelFormat")

-----------------------------------------------------------------------------
(* Inputs *)

CICP(cp, tc, mc, fullRange) ==
    [colorPrimaries |-> cp, transferCharacteristics |-> tc,
     matrixCoefficients |-> mc, fullRange |-> fullRange]

\* an aom_image_t as the decoder hands it out: the planes hold the codes of
\* ys, us and vs, repeated in raster order
MakeImage(d_w, d_h, fmt, bit_depth, monochrome, cicp, ys, us, vs) ==
    LET cw == ChromaExtent(d_w, XChromaShift(fmt))
        ch == ChromaExtent(d_h, YChromaShift(fmt))
        fill(codes, n) == [i \in 0 .. n - 1 |-> codes[(i % Len(codes)) + 1]]
    IN  [d_w |-> d_w, d_h |-> d_h, fmt |-> fmt, bit_depth |-> bit_depth,
         monochrome |-> monochrome,
         range |-> IF cicp.fullRange THEN "FullRange" ELSE "StudioRange",
         cp |-> cicp.colorPrimaries, tc |-> cicp.transferCharacteristics,
         mc |-> cicp.matrixCoefficients, spatial_id |-> 0,
         planes |-> [Y |-> fill(ys, d_w * d_h), U |-> fill(us, cw * ch), V |-> fill(vs, cw * ch)]]

\* a BitmapData of the caller: pixel i holds values that tell the pixels and
\* the channels apart
InitialPixel(format, i) ==
    IF format = "Rgba128Float"
    THEN [b |-> Rat(1, 8 + i), g |-> Rat(3, 8 + i), r |-> Rat(5, 8 + i), a |-> Rat(7, 8 + i)]
    ELSE [b |-> RInt(40 + i), g |-> RInt(80 + i), r |-> RInt(120 + i), a |-> RInt(160 + i)]

MakeSurface(width, height, format) ==
    [width |-> width, height |-> height, format |-> format,
     px |-> [i \in 0 .. width * height - 1 |-> InitialPixel(format, i)]]

\* colour descriptions the callers pass
FullRangeCICP(mc) == CICP("BT709", "sRGB", mc, TRUE)
StudioRangeCICP(mc) == CICP("BT709", "sRGB", mc, FALSE)

\* frames for the direct converter calls: every plane layout, bit depth, range
\* and sample width the routines tell apart, with luma codes below the black
\* level and above the white level
ConverterFrames ==
    {MakeImage(2, 2, "I444", 8, FALSE, FullRangeCICP("BT601"), <<0, 85, 170, 255>>, <<128, 43>>, <<128, 213>>),
     MakeImage(1, 1, "I444", 8, FALSE, FullRangeCICP("Identity"), <<7>>, <<99>>, <<201>>),
     MakeImage(2, 2, "I420", 8, FALSE, StudioRangeCICP("BT601"), <<0, 16, 235, 255>>, <<128>>, <<128>>),
     MakeImage(2, 1, "YV12", 8, FALSE, FullRangeCICP("BT601"), <<255, 0>>, <<128>>, <<43>>),
     MakeImage(2, 2, "I422", 8, FALSE, FullRangeCICP("BT601"), <<85, 170>>, <<213>>, <<128>>),
     MakeImage(2, 2, "I420", 8, TRUE, StudioRangeCICP("Unspecified"), <<0, 16, 235, 255>>, <<128>>, <<128>>),
     MakeImage(2, 2, "I420", 8, TRUE, FullRangeCICP("Unspecified"), <<0, 16, 235, 255>>, <<128>>, <<128>>),
     MakeImage(2, 2, "I44416", 10, FALSE, FullRangeCICP("YCgCo"), <<0, 341, 682, 1023>>, <<512, 171>>, <<512, 853>>),
     MakeImage(2, 2, "I42016", 10, TRUE, StudioRangeCICP("Unspecified"), <<0, 64, 940, 1023>>, <<512>>, <<512>>),
     MakeImage(2, 1, "I42016", 12, TRUE, FullRangeCICP("Unspecified"), <<0, 4095>>, <<2048>>, <<2048>>),
     MakeImage(1, 2, "I42016", 16, TRUE, StudioRangeCICP("Unspecified"), <<4096, 65535>>, <<32768>>, <<32768>>),
     MakeImage(2, 2, "I44416", 9, FALSE, FullRangeCICP("BT601"), <<0, 511>>, <<256>>, <<256>>),
     MakeImage(2, 2, "I42016", 9, TRUE, FullRangeCICP("Unspecified"), <<0, 511>>, <<256>>, <<256>>),
     MakeImage(1, 1, "I420", 11, TRUE, StudioRangeCICP("Unspecified"), <<100>>, <<128>>, <<128>>)}

ConverterColorInfos ==
    {FullRangeCICP("Identity"), FullRangeCICP("BT601"), FullRangeCICP("YCgCo"),
     FullRangeCICP("YCgCoRe")}

ConverterSurfaces ==
    {MakeSurface(3, 2, f) : f \in BitmapDataPixelFormat} \cup {MakeSurface(4, 3, "Bgra32")}

\* tile indexes: inside the surface, on its edge, beyond it, and one whose
\* product with the tile size no longer fits the word
TileColumnIndexes == {0, 1, 2, WordModulus \div 2 - 1}
TileRowIndexes == {0, 1}

\* what a pixel computed from reads outside the frame may hold
JunkSamples == {0, 200}

\* what a build makes of a float-to-integer conversion that does not fit
UndefinedCasts == {"wrap", "saturate"}

-----------------------------------------------------------------------------
(* State *)

NoCall == [op |-> "none"]

NoImageInfo ==
    [width |-> 0, height |-> 0, bitDepth |-> 0, chromaSubsampling |-> "unset",
     cicpData |-> CICP("unset", "unset", "unset", FALSE)]

InitConvert ==
    /\ surface \in ConverterSurfaces
    /\ decoders = <<>>
    /\ imageHandle = NULL
    /\ imageInfo = NoImageInfo
    /\ call = NoCall
    /\ log = <<>>

\* the copy sizes the routine of a converter call used
CopySizesOf(routine, frame, tileColumnIndex, tileRowIndex) ==
    IF routine = "none" THEN [copyWidth |-> 0, copyHeight |-> 0]
    ELSE GetCopySizes(Deref(frame), tileColumnIndex, tileRowIndex, surface)

\* the record of a converter call
ConverterCall(op, frame, colorInfo, tileColumnIndex, tileRowIndex, outputImage, alloc, result) ==
    [op |-> op, frame |-> frame, colorInfo |-> colorInfo,
     tileColumnIndex |-> tileColumnIndex, tileRowIndex |-> tileRowIndex,
     outputImage |-> IF outputImage = NULL THEN NULL ELSE Ptr("surface"),
     alloc |-> alloc, before |-> surface.px,
     status |-> result.status, oob |-> result.oob, routine |-> result.routine,
     copy |-> CopySizesOf(result.routine, frame, tileColumnIndex, tileRowIndex)]

\* a caller converts a colour frame into its fresh surface
CallConvertColorImage ==
    /\ call.op = "none"
    /\ \E frame \in {NULL} \cup {Ptr(f) : f \in ConverterFrames},
          colorInfo \in {NULL} \cup {Ptr(c) : c \in ConverterColorInfos},
          tileColumnIndex \in TileColumnIndexes, tileRowIndex \in TileRowIndexes,
          outputImage \in {NULL, Ptr(surface)},
          alloc \in BOOLEAN, junk \in JunkSamples, ub \in UndefinedCasts :
        \E result \in {ConvertColorImage(frame, colorInfo, tileColumnIndex, tileRowIndex,
                                         outputImage, alloc, junk, ub)} :
            /\ surface' = IF outputImage = NULL THEN surface
                          ELSE [surface EXCEPT !.px = result.px]
            /\ call' = ConverterCall("ConvertColorImage", frame, colorInfo, tileColumnIndex,
                                     tileRowIndex, outputImage, alloc, result)
            /\ UNCHANGED <<decoders, imageHandle, imageInfo, log>>

\* a caller converts an alpha frame into its fresh surface
CallConvertAlphaImage ==
    /\ call.op = "none"
    /\ \E frame \in {NULL} \cup {Ptr(f) : f \in ConverterFrames},
          tileColumnIndex \in TileColumnIndexes, tileRowIndex \in TileRowIndexes,
          outputImage \in {NULL, Ptr(surface)},
          alloc \in BOOLEAN, junk \in JunkSamples, ub \in UndefinedCasts :
        \E result \in {ConvertAlphaImage(frame, tileColumnIndex, tileRowIndex,
                                         outputImage, alloc, junk, ub)} :
            /\ surface' = IF outputImage = NULL THEN surface
                          ELSE [surface EXCEPT !.px = result.px]
            /\ call' = ConverterCall("ConvertAlphaImage", frame, NULL, tileColumnIndex,
                                     tileRowIndex, outputImage, alloc, result)
            /\ UNCHANGED <<decoders, imageHandle, imageInfo, log>>

NextConvert == CallConvertColorImage \/ CallConvertAlphaImage

SpecConvert == InitConvert /\ [][NextConvert]_vars

-----------------------------------------------------------------------------
(* ScopedAOMCodec.h, AV1Decoder.cpp: the decoder. The AV1 codec is outside   *)
(* the program: one run of it is the error code each of its calls answers    *)
(* with and the frames aom_codec_get_frame hands out in turn. An exception   *)
(* is named by the type of the object thrown, "none" when nothing is thrown. *)

aom_codec_err_t == {"AOM_CODEC_OK", "AOM_CODEC_ERROR", "AOM_CODEC_MEM_ERROR"}

\* ScopedAOMCodec::throw_on_error: both throw expressions throw the pointer
\* that new returns
throw_on_error(err) ==
    IF err # "AOM_CODEC_OK"
    THEN IF err = "AOM_CODEC_MEM_ERROR" THEN "std::bad_alloc*" ELSE "codec_error*"
    ELSE "none"

\* ScopedAOMDecoder::ScopedAOMDecoder
ScopedAOMDecoder(codec) == throw_on_error(codec.dec_init)

\* ScopedAOMDecoder::ConfigureDecoderOptions, called on an initialized object
ConfigureDecoderOptions(codec, info) ==
    IF throw_on_error(codec.set_output_all_layers) # "none"
    THEN throw_on_error(codec.set_output_all_layers)
    ELSE throw_on_error(codec.set_operating_point)

\* ScopedAOMDecoder::DecodeFrame: the status and the new decodedImage
DecodeFrame(codec, layerInfo) ==
    IF codec.decode # "AOM_CODEC_OK"
    THEN [status |-> IF codec.decode = "AOM_CODEC_MEM_ERROR" THEN "OutOfMemory" ELSE "DecodeFailed",
          decodedImage |-> NULL]
    ELSE LET taken == {i \in 1 .. Len(codec.frames) :
                          layerInfo.allLayers => codec.frames[i].spatial_id = layerInfo.spatialLayerId}
             decodedImage == IF taken = {} THEN NULL
                             ELSE Ptr(codec.frames[CHOOSE i \in taken : \A j \in taken : i <= j])
         IN  [status |-> IF decodedImage # NULL THEN "Ok" ELSE "DecodeFailed",
              decodedImage |-> decodedImage]

\* CopyFrameInfo: the status and what info holds afterwards
CopyFrameInfo(aomImage, containerColorInfo, info) ==
    LET sized == [info EXCEPT !.width = aomImage.d_w, !.height = aomImage.d_h,
                              !.bitDepth = aomImage.bit_depth]
        chromaSubsampling ==
            IF aomImage.monochrome THEN "Subsampling400"
            ELSE IF \/ containerColorInfo # NULL /\ Deref(containerColorInfo).matrixCoefficients = "Identity"
                    \/ containerColorInfo = NULL /\ aomImage.mc = "Identity"
            THEN "IdentityMatrix"
            ELSE IF aomImage.fmt \in Formats420 THEN "Subsampling420"
            ELSE IF aomImage.fmt \in Formats422 THEN "Subsampling422"
            ELSE IF aomImage.fmt \in Formats444 THEN "Subsampling444"
            ELSE "none"
    IN  IF chromaSubsampling = "none"
        THEN [status |-> "UnknownYUVFormat", info |-> sized]
        ELSE [status |-> "Ok",
              info |-> [sized EXCEPT !.chromaSubsampling = chromaSubsampling,
                                     !.cicpData = CICP(aomImage.cp, aomImage.tc, aomImage.mc,
                                                       aomImage.range = "FullRange")]]

\* the handlers of DecoderLoadImage: the status a caught exception gives,
\* "none" for an exception no handler matches, which leaves the function
CaughtStatus(exception) ==
    IF exception = "std::bad_alloc" THEN "OutOfMemory"
    ELSE IF exception = "codec_init_error" THEN "CodecInitFailed"
    ELSE "none"

\* the null check with the test of the length left out
LoadImageNullParameterNoSize(a) ==
    \/ a.compressedImage = NULL
    \/ a.layerInfo = NULL
    \/ a.imageHandle = NULL
    \/ a.imageInfo = NULL

\* the null check of DecoderLoadImage
LoadImageNullParameter(a) ==
    \/ a.compressedImage = NULL
    \/ a.compressedImageSize = 0
    \/ a.layerInfo = NULL
    \/ a.imageHandle = NULL
    \/ a.imageInfo = NULL

\* codec.release() whatever the status of CopyFrameInfo
ReleasedDecoderAnyStatus(status, decodedImage) ==
    Ptr([decodedImage |-> decodedImage])

\* the decoder codec.release() hands to *imageHandle after CopyFrameInfo gave
\* status, NULL when the unique_ptr keeps it
ReleasedDecoder(status, decodedImage) ==
    IF status = "Ok" THEN Ptr([decodedImage |-> decodedImage]) ELSE NULL

\* the body of DecoderLoadImage with arguments a: the status returned ("none"
\* when an exception leaves the function), the exception that leaves it, the
\* decoder released into *imageHandle (NULL when it is not written), what
\* *imageInfo holds afterwards, whether the codec was called, whether a
\* ScopedAOMDecoder was constructed and whether the unique_ptr destroyed it
\* on the way out (for an exception that leaves the function: when the stack
\* is unwound); alloc tells whether std::make_unique gets its memory
LoadImage(a, alloc, codec, info) ==
    LET LoadOutcome(status, exception, decoder, written, codecCalls, created) ==
            [status |-> status, exception |-> exception, decoder |-> decoder,
             info |-> written, codecCalls |-> codecCalls,
             created |-> created, destroyed |-> created /\ decoder = NULL]
    IN
    IF LoadImageNullParameter(a)
    THEN LoadOutcome("NullParameter", "none", NULL, info, FALSE, FALSE)
    ELSE
    LET thrown == IF ~alloc THEN "std::bad_alloc"
                  ELSE IF ScopedAOMDecoder(codec) # "none" THEN ScopedAOMDecoder(codec)
                  ELSE ConfigureDecoderOptions(codec, Deref(a.layerInfo))
        decoded == DecodeFrame(codec, Deref(a.layerInfo))
        copied  == CopyFrameInfo(Deref(decoded.decodedImage), a.containerColorInfo, info)
    IN  IF thrown # "none"
        THEN LoadOutcome(CaughtStatus(thrown),
                         IF CaughtStatus(thrown) = "none" THEN thrown ELSE "none",
                         NULL, info, alloc,
                         alloc /\ ScopedAOMDecoder(codec) = "none")
        ELSE IF decoded.status # "Ok"
        THEN LoadOutcome(decoded.status, "none", NULL, info, TRUE, TRUE)
        ELSE LoadOutcome(copied.status, "none",
                         ReleasedDecoder(copied.status, decoded.decodedImage),
                         copied.info, TRUE, TRUE)

\* frames the codec decodes: 2x1 full-range colour tiles
Tile(fmt, bit_depth, mc, spatial_id) ==
    [MakeImage(2, 1, fmt, bit_depth, FALSE, FullRangeCICP(mc),
               <<Pow2(bit_depth - 4), Pow2(bit_depth) - 1>>,
               <<Pow2(bit_depth - 1)>>, <<Pow2(bit_depth - 1)>>)
        EXCEPT !.spatial_id = spatial_id]

TileFrames ==
    {Tile("I444", 8, "BT709", 0), Tile("I444", 8, "BT601", 1), Tile("I42016", 10, "BT709", 0),
     Tile("NONE", 8, "BT709", 0)}

\* a run of the codec in which every call succeeds
Decoded(frames) ==
    [dec_init |-> "AOM_CODEC_OK", set_output_all_layers |-> "AOM_CODEC_OK",
     set_operating_point |-> "AOM_CODEC_OK", decode |-> "AOM_CODEC_OK", frames |-> frames]

\* the runs of DecoderLoadImage: whether std::make_unique gets its memory, and
\* a run of the codec with one frame, no frame, two spatial layers, or one
\* failing call
LoadRuns ==
    LET one == Decoded(<<Tile("I444", 8, "BT709", 0)>>)
    IN  {[alloc |-> TRUE, codec |-> Decoded(<<f>>)] : f \in TileFrames}
            \cup {[alloc |-> TRUE, codec |-> Decoded(<<>>)],
                  [alloc |-> TRUE,
                   codec |-> Decoded(<<Tile("I444", 8, "BT709", 0), Tile("I444", 8, "BT601", 1)>>)],
                  [alloc |-> FALSE, codec |-> one]}
            \cup {[alloc |-> TRUE, codec |-> [one EXCEPT ![c] = e]] :
                    c \in {"dec_init", "set_output_all_layers", "set_operating_point", "decode"},
                    e \in aom_codec_err_t \ {"AOM_CODEC_OK"}}

DecoderLayerInfos ==
    {[spatialLayerId |-> 0, allLayers |-> FALSE, operatingPoint |-> 0],
     [spatialLayerId |-> 1, allLayers |-> TRUE, operatingPoint |-> 1]}

\* the arguments of DecoderLoadImage: all required ones given, with and
\* without container colour information, and each required one missing
LoadArguments ==
    LET given == {[compressedImage |-> Ptr("data"), compressedImageSize |-> 1,
                   containerColorInfo |-> c, layerInfo |-> Ptr(l),
                   imageHandle |-> Ptr("imageHandle"), imageInfo |-> Ptr("imageInfo")] :
                     c \in {NULL, Ptr(FullRangeCICP("BT601"))}, l \in DecoderLayerInfos}
        one   == {a \in given : a.containerColorInfo = NULL /\ ~Deref(a.layerInfo).allLayers}
    IN  given
            \cup {[a EXCEPT !.compressedImage = NULL] : a \in one}
            \cup {[a EXCEPT !.compressedImageSize = 0] : a \in one}
            \cup {[a EXCEPT !.layerInfo = NULL] : a \in one}
            \cup {[a EXCEPT !.imageHandle = NULL] : a \in one}
            \cup {[a EXCEPT !.imageInfo = NULL] : a \in one}

\* the greatest number of decoders alive at once and of tiles converted
MaxDecoders == 1
MaxTiles == 2

\* the surface the tiles of the decoded image are assembled in
Init ==
    /\ surface = MakeSurface(4, 1, "Bgra32")
    /\ decoders = <<>>
    /\ imageHandle = NULL
    /\ imageInfo = NoImageInfo
    /\ call = NoCall
    /\ log = <<>>

\* the handles of the decoders that are alive
LiveHandles == {h \in DOMAIN decoders : decoders[h] # NULL}

\* the caller goes on to the next entry point after a call that succeeded: a
\* failure status or an exception ends the decoding of the image
DecoderReady ==
    \/ call.op \in {"none", "DecoderFreeImageHandle"}
    \/ /\ call.op \in {"DecoderLoadImage", "DecoderConvertColorImage", "DecoderConvertAlphaImage"}
       /\ call.status = "Ok"

\* DecoderLoadImage: the decoder it releases gets the first free handle
DecoderLoadImage ==
    /\ DecoderReady
    /\ Cardinality(LiveHandles) < MaxDecoders
    /\ \E a \in LoadArguments, run \in LoadRuns :
        \E result \in {LoadImage(a, run.alloc, run.codec, imageInfo)} :
        \E handle \in {IF \E h \in DOMAIN decoders : decoders[h] = NULL
                       THEN CHOOSE h \in DOMAIN decoders : decoders[h] = NULL
                       ELSE Len(decoders) + 1} :
            /\ decoders' = IF result.decoder = NULL THEN decoders
                           ELSE IF handle \in DOMAIN decoders
                           THEN [decoders EXCEPT ![handle] = result.decoder]
                           ELSE Append(decoders, result.decoder)
            /\ imageHandle' = IF result.decoder = NULL THEN imageHandle ELSE Ptr(handle)
            /\ imageInfo' = result.info
            /\ call' = [op |-> "DecoderLoadImage", a |-> a, alloc |-> run.alloc,
                        codec |-> [c \in DOMAIN run.codec \ {"frames"} |-> run.codec[c]],
                        status |-> result.status, exception |-> result.exception,
                        codecCalls |-> result.codecCalls,
                        created |-> result.created, destroyed |-> result.destroyed,
                        handleBefore |-> imageHandle, infoBefore |-> imageInfo,
                        decodersBefore |-> decoders]
            /\ UNCHANGED <<surface, log>>

\* the record of a tile conversion through a handle
TileEvent(frame, colorInfo, tileColumnIndex, tileRowIndex, alloc, result) ==
    [frame |-> frame, colorInfo |-> colorInfo, alloc |-> alloc,
     tileColumnIndex |-> tileColumnIndex, tileRowIndex |-> tileRowIndex,
     status |-> result.status, changed |-> result.px # surface.px, recorded |-> imageInfo]

\* DecoderConvertColorImage
DecoderConvertColorImage ==
    /\ DecoderReady
    /\ Len(log) < MaxTiles
    /\ \E imageHandle_ \in {NULL} \cup {Ptr(h) : h \in LiveHandles},
          colorInfo \in {NULL, Ptr(imageInfo.cicpData)},
          tileColumnIndex \in {Len(log)},
          outputImage \in {NULL, Ptr(surface)},
          alloc \in BOOLEAN, junk \in JunkSamples, ub \in UndefinedCasts :
        \E frame \in {IF imageHandle_ = NULL THEN NULL
                      ELSE Deref(decoders[Deref(imageHandle_)]).decodedImage} :
        \E result \in {IF imageHandle_ = NULL THEN NoCopy(outputImage, "NullParameter")
                       ELSE ConvertColorImage(frame, colorInfo, tileColumnIndex, 0,
                                              outputImage, alloc, junk, ub)} :
            /\ surface' = IF outputImage = NULL THEN surface
                          ELSE [surface EXCEPT !.px = result.px]
            /\ call' = [imageHandle |-> imageHandle_, decodersBefore |-> decoders]
                        @@ ConverterCall("DecoderConvertColorImage", frame, colorInfo,
                                         tileColumnIndex, 0, outputImage, alloc, result)
            /\ log' = IF frame = NULL \/ colorInfo = NULL \/ outputImage = NULL THEN log
                      ELSE Append(log, TileEvent(Deref(frame), colorInfo, tileColumnIndex, 0, alloc, result))
            /\ UNCHANGED <<decoders, imageHandle, imageInfo>>

\* DecoderConvertAlphaImage
DecoderConvertAlphaImage ==
    /\ DecoderReady
    /\ \E imageHandle_ \in {NULL} \cup {Ptr(h) : h \in LiveHandles},
          tileColumnIndex \in {0},
          outputImage \in {NULL, Ptr(surface)},
          alloc \in BOOLEAN, junk \in JunkSamples, ub \in UndefinedCasts :
        \E frame \in {IF imageHandle_ = NULL THEN NULL
                      ELSE Deref(decoders[Deref(imageHandle_)]).decodedImage} :
        \E result \in {IF imageHandle_ = NULL THEN NoCopy(outputImage, "NullParameter")
                       ELSE ConvertAlphaImage(frame, tileColumnIndex, 0, outputImage, alloc, junk, ub)} :
            /\ surface' = IF outputImage = NULL THEN surface
                          ELSE [surface EXCEPT !.px = result.px]
            /\ call' = [imageHandle |-> imageHandle_, decodersBefore |-> decoders]
                        @@ ConverterCall("DecoderConvertAlphaImage", frame, NULL,
                                         tileColumnIndex, 0, outputImage, alloc, result)
            /\ UNCHANGED <<decoders, imageHandle, imageInfo, log>>

\* DecoderFreeImageHandle: delete of the decoder of a handle that is alive
DecoderFreeImageHandle ==
    /\ DecoderReady
    /\ \E handle \in {NULL} \cup {Ptr(h) : h \in LiveHandles} :
        /\ decoders' = IF handle = NULL THEN decoders
                       ELSE [decoders EXCEPT ![Deref(handle)] = NULL]
        /\ call' = [op |-> "DecoderFreeImageHandle", handle |-> handle,
                    decodersBefore |-> decoders]
        /\ UNCHANGED <<surface, imageHandle, imageInfo, log>>

Next ==
    \/ CallConvertColorImage
    \/ CallConvertAlphaImage
    \/ DecoderLoadImage
    \/ DecoderConvertColorImage
    \/ DecoderConvertAlphaImage
    \/ DecoderFreeImageHandle

Spec == Init /\ [][Next]_vars

-----------------------------------------------------------------------------
(* ChromaSubsampling.cpp: the BGRA-to-planar conversion. A plane is written  *)
(* without its row padding; a sample no store reaches keeps what the         *)
(* allocation left there, junk.                                               *)

YUVChromaSubsampling ==
    {"Subsampling420", "Subsampling422", "Subsampling444", "Subsampling400", "IdentityMatrix"}

EncoderStatus ==
    {"Ok", "NullParameter", "OutOfMemory", "UnknownYUVFormat", "CodecInitFailed",
     "EncodeFailed", "UserCancelled"}

\* the ColorBgra at (x, y) of a Bgra32 BitmapData, its channels as integers
ColorBgraAt(bgraImage, x, y) ==
    LET p == bgraImage.px[y * bgraImage.width + x]
    IN  [b |-> p.b.n, g |-> p.g.n, r |-> p.r.n, a |-> p.a.n]

\* the samples of a plane of w by h samples, in raster order: sample i is
\* the one at (i % w, i \div w)
PlaneSamples(w, h) == 0 .. w * h - 1

\* the plane the loops fill with channel c of every pixel
ChannelPlane(bgraImage, c) ==
    [i \in PlaneSamples(bgraImage.width, bgraImage.height) |->
        ColorBgraAt(bgraImage, i % bgraImage.width, i \div bgraImage.width)[c]]

yuvToUNorm(chan, v) ==
    LET unorm == Clamp(IF chan # "Y" THEN RAdd(v, RHalf) ELSE v, RInt(0), RInt(1))
    IN  avifRoundf(RMul(unorm, RInt(255))) % 256

GetUVHeight(imageHeight, aomFormat) ==
    IF aomFormat \in Formats420 THEN imageHeight \div 2
    ELSE IF aomFormat \in Formats422 \cup Formats444 THEN imageHeight
    ELSE 0

BuildUint8ToFloatLookupTable == [i \in 0 .. 255 |-> Rat(i, 255)]

\* the loops with the red and the green channel stored in each other's plane
ColorToIdentity8Swapped(bgraImage) ==
    [Y |-> ChannelPlane(bgraImage, "r"),
     U |-> ChannelPlane(bgraImage, "b"),
     V |-> ChannelPlane(bgraImage, "g")]

\* the three planes of the frame after the loops
ColorToIdentity8(bgraImage) ==
    [Y |-> ChannelPlane(bgraImage, "g"),
     U |-> ChannelPlane(bgraImage, "b"),
     V |-> ChannelPlane(bgraImage, "r")]

RECURSIVE RSum(_)
RSum(values) == IF values = <<>> THEN RInt(0) ELSE RAdd(values[1], RSum(Tail(values)))

\* the YUVBlock of a pixel with luma Y
YUVBlock(Y, rgbPixel, yuvCoefficiants) ==
    [y |-> Y,
     u |-> RDiv(RSub(rgbPixel.b, Y), RMul(RInt(2), RSub(RInt(1), yuvCoefficiants.kb))),
     v |-> RDiv(RSub(rgbPixel.r, Y), RMul(RInt(2), RSub(RInt(1), yuvCoefficiants.kr)))]

\* the RGB to YUV conversion of a pixel unpacked into normalized float
RGBToYUV(rgbPixel, yuvCoefficiants) ==
    YUVBlock(RAdd(RAdd(RMul(yuvCoefficiants.kr, rgbPixel.r),
                       RMul(yuvCoefficiants.kg, rgbPixel.g)),
                  RMul(yuvCoefficiants.kb, rgbPixel.b)),
             rgbPixel, yuvCoefficiants)

\* the pixel the loops read at (x, y): a read outside the image is undefined
\* behaviour and gives an arbitrary value, junk
PixelRead(bgraImage, x, y, junk) ==
    IF x < bgraImage.width /\ y < bgraImage.height
    THEN ColorBgraAt(bgraImage, x, y)
    ELSE [b |-> junk, g |-> junk, r |-> junk, a |-> junk]

\* every block of two samples, at the edge of the image too
BlockSizeWhole(imagePosition, imageExtent) == 2

\* blockWidth and blockHeight of the block that starts at imagePosition
BlockSize(imagePosition, imageExtent) ==
    IF imagePosition + 1 < imageExtent THEN 2 ELSE 1

\* the (imageX, imageY) the two outer loops go through
ColorToYUV8Blocks(bgraImage) ==
    {block \in (0 .. bgraImage.width - 1) \X (0 .. bgraImage.height - 1) :
        block[1] % 2 = 0 /\ block[2] % 2 = 0}

\* the (x, y) the two inner loops go through for a block: the pixels read and
\* the luma samples stored
BlockPixels(bgraImage, block) ==
    {<<block[1] + blockX, block[2] + blockY>> :
        blockX \in 0 .. BlockSize(block[1], bgraImage.width) - 1,
        blockY \in 0 .. BlockSize(block[2], bgraImage.height) - 1}

\* the (x, y) of the chroma sample stored for a block in 4:2:0
ChromaSample420(block) == <<block[1] \div 2, block[2] \div 2>>

\* the sum divided by four, whatever the number of samples of the block
AverageOfFour(samples) == RDiv(RSum(samples), RInt(4))

\* sum / totalSamples over the samples of a block
Average(samples) == RDiv(RSum(samples), RInt(Len(samples)))

\* the three planes of the frame after the loops over the pixels; the chroma
\* planes have the extent of the frame's format
ColorToYUV8Loops(bgraImage, yuvCoefficiants, yuvFormat, aomFormat, junk) ==
    LET uint8ToFloatTable == BuildUint8ToFloatLookupTable
        yuvBlock(x, y) ==
            RGBToYUV([r |-> uint8ToFloatTable[PixelRead(bgraImage, x, y, junk).r],
                      g |-> uint8ToFloatTable[PixelRead(bgraImage, x, y, junk).g],
                      b |-> uint8ToFloatTable[PixelRead(bgraImage, x, y, junk).b]],
                     yuvCoefficiants)
        blockWidth(imageX)  == BlockSize(imageX, bgraImage.width)
        blockHeight(imageY) == BlockSize(imageY, bgraImage.height)
        \* the average over the samples of the columns imageX .. imageX + w - 1
        \* in the rows firstRow .. firstRow + rows - 1; full chroma is the
        \* average of the one sample
        avg(chan, imageX, firstRow, w, rows) ==
            Average([k \in 1 .. w * rows |->
                        yuvBlock(imageX + ((k - 1) % w),
                                 firstRow + ((k - 1) \div w))[chan]])
        chroma(name, chan, x, y) ==
            IF yuvFormat \notin {"Subsampling444", "Subsampling420", "Subsampling422"}
            THEN junk
            ELSE yuvToUNorm(name,
                            IF yuvFormat = "Subsampling444" THEN avg(chan, x, y, 1, 1)
                            ELSE IF yuvFormat = "Subsampling420"
                            THEN avg(chan, 2 * x, 2 * y, blockWidth(2 * x), blockHeight(2 * y))
                            ELSE avg(chan, 2 * x, y, blockWidth(2 * x), 1))
        cw == ChromaExtent(bgraImage.width, XChromaShift(aomFormat))
        ch == ChromaExtent(bgraImage.height, YChromaShift(aomFormat))
    IN  [Y |-> [i \in PlaneSamples(bgraImage.width, bgraImage.height) |->
                    yuvToUNorm("Y", yuvBlock(i % bgraImage.width, i \div bgraImage.width).y)],
         U |-> [i \in PlaneSamples(cw, ch) |-> chroma("U", "u", i % cw, i \div cw)],
         V |-> [i \in PlaneSamples(cw, ch) |-> chroma("V", "v", i % cw, i \div cw)]]

\* the coefficients resolved once, then the loops
ColorToYUV8(bgraImage, colorInfo, yuvFormat, aomFormat, junk) ==
    ColorToYUV8Loops(bgraImage, GetYUVCoefficiants(colorInfo), yuvFormat, aomFormat, junk)

\* the Y plane after the loops
MonoToY8(bgraImage) ==
    ChannelPlane(bgraImage, "r")

\* the loops with the red channel stored for the alpha
AlphaToY8Red(bgraImage) ==
    ChannelPlane(bgraImage, "r")

\* the Y plane after the loops
AlphaToY8(bgraImage) ==
    ChannelPlane(bgraImage, "a")

\* a chroma plane of w by h samples after the loop: the rows below uvHeight
\* are zero
ZeroUVPlanes(uvHeight, w, h, junk) ==
    [i \in PlaneSamples(w, h) |-> IF i \div w < uvHeight THEN 0 ELSE junk]

\* aom_img_alloc followed by the fields every conversion sets
AllocatedImage(bgraImage, aomFormat, cp, tc, mc, monochrome, planes) ==
    [d_w |-> bgraImage.width, d_h |-> bgraImage.height, fmt |-> aomFormat,
     bit_depth |-> 8, monochrome |-> monochrome, range |-> "FullRange",
     cp |-> cp, tc |-> tc, mc |-> mc, spatial_id |-> 0, planes |-> planes]

\* the planes of a monochrome frame: luma from Luma, chroma zeroed
MonochromePlanes(bgraImage, aomFormat, luma, junk) ==
    LET uvHeight == GetUVHeight(bgraImage.height, aomFormat)
        cw == ChromaExtent(bgraImage.width, XChromaShift(aomFormat))
        ch == ChromaExtent(bgraImage.height, YChromaShift(aomFormat))
    IN  [Y |-> luma,
         U |-> ZeroUVPlanes(uvHeight, cw, ch, junk),
         V |-> ZeroUVPlanes(uvHeight, cw, ch, junk)]

\* the frame returned, NULL when aom_img_alloc fails
ConvertColorToAOMImage(bgraImage, colorInfo, yuvFormat, aomFormat, alloc, junk) ==
    IF ~alloc THEN NULL
    ELSE LET monochrome == yuvFormat = "Subsampling400"
         IN  Ptr(AllocatedImage(bgraImage, aomFormat, colorInfo.colorPrimaries,
                                colorInfo.transferCharacteristics,
                                colorInfo.matrixCoefficients, monochrome,
                 IF monochrome
                 THEN MonochromePlanes(bgraImage, aomFormat, MonoToY8(bgraImage), junk)
                 ELSE IF yuvFormat = "IdentityMatrix"
                 THEN ColorToIdentity8(bgraImage)
                 ELSE ColorToYUV8(bgraImage, colorInfo, yuvFormat, aomFormat, junk)))

\* the conversion with the colour tags left as aom_img_alloc clears them
ConvertAlphaToAOMImageUntagged(bgraImage, alloc, junk) ==
    IF ~alloc THEN NULL
    ELSE Ptr(AllocatedImage(bgraImage, "I420", "Reserved0", "Reserved0",
                            "Identity", TRUE,
                            MonochromePlanes(bgraImage, "I420", AlphaToY8(bgraImage), junk)))

\* the alpha frame returned, NULL when aom_img_alloc fails
ConvertAlphaToAOMImage(bgraImage, alloc, junk) ==
    IF ~alloc THEN NULL
    ELSE Ptr(AllocatedImage(bgraImage, "I420", "Unspecified", "Unspecified",
                            "Unspecified", TRUE,
                            MonochromePlanes(bgraImage, "I420", AlphaToY8(bgraImage), junk)))

-----------------------------------------------------------------------------
(* AvifNative.cpp: the encode entry point. The AV1 encoder is outside the    *)
(* program: one run of it is the status the compression of the frames ends   *)
(* with.                                                                      *)

\* the statuses the compression of a colour and an alpha frame can end with
CompressAOMImagesStatus == {"Ok", "OutOfMemory", "CodecInitFailed", "EncodeFailed", "UserCancelled"}

CompressAOMImages(color, alpha, encoded) == encoded

\* the status returned, the frames converted on the way (owned by the call and
\* freed on return) and the conversion that ran
CompressWithAOM(image, includeTransparency, encodeOptions, colorInfo, run) ==
    LET yuvFormat == encodeOptions.yuvFormat
        aomFormat ==
            IF yuvFormat \in {"Subsampling400", "Subsampling420"} THEN "I420"
            ELSE IF yuvFormat = "Subsampling422" THEN "I422"
            ELSE IF yuvFormat = "Subsampling444" THEN "I444"
            ELSE "NONE"
        \* the function from the conversions on, the alpha frame being
        \* converted only when the colour frame is there
        AfterConversions(color, alpha) ==
            IF color = NULL
            THEN [status |-> "OutOfMemory", converted |-> TRUE, color |-> NULL, alpha |-> NULL]
            ELSE IF includeTransparency /\ alpha = NULL
            THEN [status |-> "OutOfMemory", converted |-> TRUE, color |-> color, alpha |-> NULL]
            ELSE [status |-> CompressAOMImages(color, alpha, run.encoded), converted |-> TRUE,
                  color |-> color, alpha |-> alpha]
    IN  IF aomFormat = "NONE"
        THEN [status |-> "UnknownYUVFormat", converted |-> FALSE, color |-> NULL, alpha |-> NULL]
        ELSE AfterConversions(ConvertColorToAOMImage(image, colorInfo, yuvFormat, aomFormat,
                                                     run.allocColor, run.junk),
                              IF includeTransparency
                              THEN ConvertAlphaToAOMImage(image, run.allocAlpha, run.junk)
                              ELSE NULL)

CompressImageNullParameter(a) ==
    \/ a.image = NULL
    \/ a.encodeOptions = NULL
    \/ a.progressContext = NULL
    \/ a.compressedColorImage = NULL
    \/ a.compressedColorImageSize = NULL

\* the result of CompressWithAOM and the progressDone the call leaves in the
\* caller's ProgressContext
CompressImage(a, run) ==
    LET NotConverted(status, progressDone) ==
            [status |-> status, converted |-> FALSE, color |-> NULL, alpha |-> NULL,
             progressDone |-> progressDone]
        progressDone == U32(Deref(a.progressContext).progressDone + 1)
        includeTransparency ==
            a.compressedAlphaImage # NULL /\ a.compressedAlphaImageSize # NULL
    IN  IF CompressImageNullParameter(a)
        THEN NotConverted("NullParameter",
                          IF a.progressContext = NULL THEN 0
                          ELSE Deref(a.progressContext).progressDone)
        ELSE IF ~run.proceed
        THEN NotConverted("UserCancelled", progressDone)
        ELSE [progressDone |-> progressDone]
             @@ CompressWithAOM(Deref(a.image), includeTransparency,
                                Deref(a.encodeOptions), Deref(a.colorInfo), run)

-----------------------------------------------------------------------------
(* Inputs of the encoder path *)

\* the ColorBgra values the source surfaces are made of
BgraPalette ==
    <<[b |-> 0, g |-> 0, r |-> 0, a |-> 255],
      [b |-> 255, g |-> 255, r |-> 255, a |-> 0],
      [b |-> 1, g |-> 2, r |-> 3, a |-> 128],
      [b |-> 200, g |-> 100, r |-> 50, a |-> 77]>>

\* a Bgra32 BitmapData whose pixel i holds the palette entry i + first
MakeBgra(width, height, first) ==
    [width |-> width, height |-> height, format |-> "Bgra32",
     px |-> [i \in 0 .. width * height - 1 |->
                LET c == BgraPalette[((i + first) % Len(BgraPalette)) + 1]
                IN  [b |-> RInt(c.b), g |-> RInt(c.g), r |-> RInt(c.r), a |-> RInt(c.a)]]]

\* widths and heights: one pixel, even and odd, in both directions
EncoderSizes == {<<1, 1>>, <<2, 1>>, <<1, 2>>, <<2, 2>>, <<3, 2>>, <<3, 3>>}

\* a Bgra32 BitmapData all of whose pixels hold the palette entry color
UniformBgra(width, height, color) ==
    [width |-> width, height |-> height, format |-> "Bgra32",
     px |-> [i \in 0 .. width * height - 1 |->
                LET c == BgraPalette[color]
                IN  [b |-> RInt(c.b), g |-> RInt(c.g), r |-> RInt(c.r), a |-> RInt(c.a)]]]

\* a black Bgra32 BitmapData of 16x16 pixels whose pixel i has alpha i: every
\* value a ColorBgra can hold
AlphaRamp ==
    [width |-> 16, height |-> 16, format |-> "Bgra32",
     px |-> [i \in 0 .. 255 |-> [b |-> RInt(0), g |-> RInt(0), r |-> RInt(0), a |-> RInt(i)]]]

\* surfaces of mixed pixels, surfaces of one colour up to 4x4, and the
\* surface of every alpha
EncoderSurfaces ==
    {MakeBgra(s[1], s[2], first) : s \in EncoderSizes, first \in 0 .. Len(BgraPalette) - 1}
        \cup {UniformBgra(s[1], s[2], color) :
                s \in EncoderSizes \cup {<<4, 4>>}, color \in {3, 4}}
        \cup {AlphaRamp}

\* colour descriptions of the encoder's callers; the coefficients of BT601 and
\* FCC are the table's short decimals
EncoderColorInfos == {FullRangeCICP("BT601"), FullRangeCICP("FCC"), FullRangeCICP("Identity")}

\* the frame format CompressWithAOM pairs with each chroma format, and I444
\* for the identity matrix
EncoderFormats ==
    {<<"Subsampling400", "I420">>, <<"Subsampling420", "I420">>, <<"Subsampling422", "I422">>,
     <<"Subsampling444", "I444">>, <<"IdentityMatrix", "I444">>}

\* EncoderOptions.yuvFormat: the enumerators and a value that is none of them
RequestedFormats == YUVChromaSubsampling \cup {"Other"}

ProgressContexts == {[progressDone |-> 0, progressTotal |-> 3],
                     [progressDone |-> WordModulus - 1, progressTotal |-> 3]}

\* the arguments of CompressImage with every pointer given; slots tells
\* which of the two alpha outputs the caller passes
CompressGiven(yuvFormat, colorInfo, progressContext, slots) ==
    [image |-> Ptr("surface"),
     encodeOptions |-> Ptr([yuvFormat |-> yuvFormat]),
     progressContext |-> Ptr(progressContext),
     colorInfo |-> Ptr(colorInfo),
     compressedColorImage |-> Ptr("color"),
     compressedColorImageSize |-> Ptr("colorSize"),
     compressedAlphaImage |-> IF slots \in {"both", "image"} THEN Ptr("alpha") ELSE NULL,
     compressedAlphaImageSize |-> IF slots \in {"both", "size"} THEN Ptr("alphaSize") ELSE NULL]

CompressArguments ==
    LET one == CompressGiven("Subsampling420", FullRangeCICP("BT601"),
                             [progressDone |-> 0, progressTotal |-> 3], "both")
    IN  {CompressGiven(f, c, [progressDone |-> 0, progressTotal |-> 3], s) :
            f \in RequestedFormats,
            c \in {FullRangeCICP("BT601"), FullRangeCICP("Identity")},
            s \in {"both", "none", "image"}}
        \cup {CompressGiven("Subsampling444", FullRangeCICP("FCC"), p, "size") :
                p \in ProgressContexts}
        \cup {[one EXCEPT ![k] = NULL] :
                k \in {"image", "encodeOptions", "progressContext",
                       "compressedColorImage", "compressedColorImageSize"}}

\* what happens outside the program during one call: the answer of the
\* progress callback, whether each allocation succeeds, and the encoder's status
CompressRuns ==
    LET fine == [proceed |-> TRUE, allocColor |-> TRUE, allocAlpha |-> TRUE,
                 junk |-> 200, encoded |-> "Ok"]
    IN  {[fine EXCEPT !.encoded = e] : e \in CompressAOMImagesStatus}
        \cup {[fine EXCEPT !.proceed = FALSE], [fine EXCEPT !.allocColor = FALSE],
              [fine EXCEPT !.allocAlpha = FALSE], [fine EXCEPT !.junk = 0]}

-----------------------------------------------------------------------------
(* State of the encoder path: surface is the caller's source image until a   *)
(* frame is converted back, then the surface the frame was converted into.   *)

InitEncode ==
    /\ surface \in EncoderSurfaces
    /\ decoders = <<>>
    /\ imageHandle = NULL
    /\ imageInfo = NoImageInfo
    /\ call = NoCall
    /\ log = <<>>

\* a caller compresses its surface
CallCompressImage ==
    /\ call.op = "none"
    /\ \E a \in CompressArguments, run \in CompressRuns :
        \E result \in {CompressImage([a EXCEPT !.image = IF a.image = NULL THEN NULL
                                                         ELSE Ptr(surface)], run)} :
            /\ call' = [op |-> "CompressImage", a |-> a, run |-> run] @@ result
            /\ UNCHANGED <<surface, decoders, imageHandle, imageInfo, log>>

\* the record of a direct conversion of the surface to a frame
PlanarCall(op, colorInfo, yuvFormat, aomFormat, alloc, aomImage) ==
    [op |-> op, bgraImage |-> surface, colorInfo |-> colorInfo, yuvFormat |-> yuvFormat,
     aomFormat |-> aomFormat, alloc |-> alloc, aomImage |-> aomImage]

\* a caller converts the colour of its surface to a frame
CallConvertColorToAOMImage ==
    /\ call.op = "none"
    /\ \E colorInfo \in EncoderColorInfos, format \in EncoderFormats,
          alloc \in BOOLEAN, junk \in JunkSamples :
        \E aomImage \in {ConvertColorToAOMImage(surface, colorInfo, format[1], format[2],
                                                alloc, junk)} :
            /\ call' = PlanarCall("ConvertColorToAOMImage", colorInfo, format[1], format[2],
                                  alloc, aomImage)
            /\ UNCHANGED <<surface, decoders, imageHandle, imageInfo, log>>

\* a caller converts the alpha of its surface to a frame
CallConvertAlphaToAOMImage ==
    /\ call.op = "none"
    /\ \E alloc \in BOOLEAN, junk \in JunkSamples :
        \E aomImage \in {ConvertAlphaToAOMImage(surface, alloc, junk)} :
            /\ call' = PlanarCall("ConvertAlphaToAOMImage", CICP("Unspecified", "Unspecified",
                                  "Unspecified", TRUE), "Subsampling400", "I420", alloc, aomImage)
            /\ UNCHANGED <<surface, decoders, imageHandle, imageInfo, log>>

\* the record of a conversion of a frame made from a surface back to a surface
SurfaceCall(op, colorInfo, result) ==
    [op |-> op, source |-> call.bgraImage, yuvFormat |-> call.yuvFormat,
     aomFormat |-> call.aomFormat, frame |-> call.aomImage, colorInfo |-> colorInfo,
     status |-> result.status, oob |-> result.oob, routine |-> result.routine]

\* the caller converts the colour frame, as tile (0, 0) and under the colour
\* description the frame carries, into a new Bgra32 surface of the source's size
DecodeColorToSurface ==
    /\ call.op = "ConvertColorToAOMImage"
    /\ call.aomImage # NULL
    /\ \E junk \in JunkSamples, ub \in UndefinedCasts :
        LET image == Deref(call.aomImage)
            colorInfo == CICP(image.cp, image.tc, image.mc, image.range = "FullRange")
            outputImage == MakeSurface(image.d_w, image.d_h, "Bgra32")
        IN  \E result \in {ConvertColorImage(call.aomImage, Ptr(colorInfo), 0, 0,
                                             Ptr(outputImage), TRUE, junk, ub)} :
                /\ surface' = [outputImage EXCEPT !.px = result.px]
                /\ call' = SurfaceCall("ConvertColorImage", colorInfo, result)
                /\ UNCHANGED <<decoders, imageHandle, imageInfo, log>>

\* the caller converts the alpha frame, as tile (0, 0), into a new Bgra32
\* surface of the source's size
DecodeAlphaToSurface ==
    /\ call.op = "ConvertAlphaToAOMImage"
    /\ call.aomImage # NULL
    /\ \E junk \in JunkSamples, ub \in UndefinedCasts :
        LET image == Deref(call.aomImage)
            outputImage == MakeSurface(image.d_w, image.d_h, "Bgra32")
        IN  \E result \in {ConvertAlphaImage(call.aomImage, 0, 0, Ptr(outputImage),
                                             TRUE, junk, ub)} :
                /\ surface' = [outputImage EXCEPT !.px = result.px]
                /\ call' = SurfaceCall("ConvertAlphaImage", call.colorInfo, result)
                /\ UNCHANGED <<decoders, imageHandle, imageInfo, log>>

NextEncode ==
    \/ CallCompressImage
    \/ CallConvertColorToAOMImage
    \/ CallConvertAlphaToAOMImage
    \/ DecodeColorToSurface
    \/ DecodeAlphaToSurface

SpecEncode == InitEncode /\ [][NextEncode]_vars

-----------------------------------------------------------------------------
(* The colour model resolver and the lookup tables on their own: a caller   *)
(* resolves the coefficients of a colour description, or constructs the     *)
(* tables of a frame.                                                       *)

\* CICPEnums.h, with the two YCgCo-R values the converter tells apart
CICPMatrixCoefficients ==
    {"Identity", "BT709", "Unspecified", "Reserved3", "FCC", "BT470BG", "BT601", "Smpte240",
     "YCgCo", "BT2020NCL", "BT2020CL", "Smpte2085", "CromatNCL", "CromatCL", "ICtCp",
     "YCgCoRe", "YCgCoRo"}

\* the colour descriptions resolved: every pair of primaries and matrix
\* coefficients but the chromaticity-derived coefficients of the BT.2020
\* primaries, whose exact intermediate products leave the integers
ResolverColorInfos ==
    {CICP(cp, "sRGB", mc, fullRange) :
        cp \in CICPColorPrimaries, mc \in CICPMatrixCoefficients, fullRange \in BOOLEAN}
        \ {CICP("BT2020", "sRGB", "CromatNCL", fullRange) : fullRange \in BOOLEAN}

\* the bit depths tables are asked for, supported and not
TableBitDepths == {8, 9, 10, 11, 12, 16}

\* frames of every bit depth, range and kind
TableFrames ==
    {MakeImage(1, 1, IF d = 8 THEN "I444" ELSE "I44416", d, monochrome,
               CICP("BT709", "sRGB", "BT601", fullRange), <<0>>, <<0>>, <<0>>) :
        d \in TableBitDepths, monochrome \in BOOLEAN, fullRange \in BOOLEAN}

InitResolve ==
    /\ surface = MakeSurface(1, 1, "Bgra32")
    /\ decoders = <<>>
    /\ imageHandle = NULL
    /\ imageInfo = NoImageInfo
    /\ call = NoCall
    /\ log = <<>>

\* a caller resolves the coefficients of a colour description
CallGetYUVCoefficiants ==
    /\ call.op = "none"
    /\ \E colorInfo \in ResolverColorInfos :
        \E yuvData \in {GetYUVCoefficiants(colorInfo)} :
            /\ call' = [op |-> "GetYUVCoefficiants", colorInfo |-> colorInfo,
                        yuvData |-> yuvData]
            /\ UNCHANGED <<surface, decoders, imageHandle, imageInfo, log>>

\* the two tables the constructor fills for a frame, empty when it throws
\* and, the chroma table, for a monochrome frame
ConstructedTables(image, isIdentityMatrix, thrown) ==
    LET count == IF thrown = "none" THEN Pow2(image.bit_depth) ELSE 0
    IN  [unormFloatTableY  |-> [i \in 0 .. count - 1 |-> unormFloatTableY(image, i)],
         unormFloatTableUV |-> IF image.monochrome THEN <<>>
                               ELSE [i \in 0 .. count - 1 |->
                                        unormFloatTableUV(image, isIdentityMatrix, i)]]

\* a caller constructs the YUVLookupTables of a frame
ConstructYUVLookupTables ==
    /\ call.op = "none"
    /\ \E image \in TableFrames, isIdentityMatrix \in BOOLEAN, alloc \in BOOLEAN :
        \E thrown \in {YUVLookupTables(image, alloc)} :
        \E tables \in {ConstructedTables(image, isIdentityMatrix, thrown)} :
            /\ call' = [op |-> "YUVLookupTables", bit_depth |-> image.bit_depth,
                        monochrome |-> image.monochrome, range |-> image.range,
                        isIdentityMatrix |-> isIdentityMatrix, alloc |-> alloc,
                        thrown |-> thrown, tables |-> tables]
            /\ UNCHANGED <<surface, decoders, imageHandle, imageInfo, log>>

NextResolve == CallGetYUVCoefficiants \/ ConstructYUVLookupTables

SpecResolve == InitResolve /\ [][NextResolve]_vars

-----------------------------------------------------------------------------
(* Properties of the converters, checked under SpecConvert *)

\* a converter call whose routine ran its copy loops
RoutineRan ==
    call.op \in {"ConvertColorImage", "ConvertAlphaImage"} /\ call.routine # "none"

\* C1: for every tile size, tile index and surface size the copy sizes of
\* GetCopySizes are clipped to what is left of the surface: copyWidth <= d_w,
\* copyHeight <= d_h, tileColumnIndex * d_w + copyWidth <= width,
\* tileRowIndex * d_h + copyHeight <= height, and no routine stores a pixel
\* outside the surface
C1_CopySizesClipped ==
    RoutineRan =>
        LET image == Deref(call.frame)
        IN  /\ call.copy.copyWidth <= image.d_w
            /\ call.copy.copyHeight <= image.d_h
            /\ call.tileColumnIndex * image.d_w + call.copy.copyWidth <= surface.width
            /\ call.tileRowIndex * image.d_h + call.copy.copyHeight <= surface.height
            /\ ~call.oob

SupportedFormats == {"Bgra32", "Rgba64", "Rgba128Float"}

\* C4: ConvertColorImage and ConvertAlphaImage, given their required
\* arguments and the memory they ask for, return UnsupportedBitDepth for every
\* frame whose bit depth is not 8, 10, 12 or 16, whatever the matrix
\* coefficients (Identity included), the monochrome flag and the supported
\* output pixel format
C4_UnsupportedBitDepth ==
    (/\ call.op \in {"ConvertColorImage", "ConvertAlphaImage"}
     /\ call.frame # NULL
     /\ call.outputImage # NULL
     /\ call.op = "ConvertColorImage" => call.colorInfo # NULL
     /\ call.alloc
     /\ surface.format \in SupportedFormats
     /\ Deref(call.frame).bit_depth \notin SupportedBitDepths)
        => call.status = "UnsupportedBitDepth"

\* pixel i of the surface lies in the destination rectangle of the tile of
\* the call, clipped to the surface
InClippedRectangle(i) ==
    LET image == Deref(call.frame)
        x == i % surface.width
        y == i \div surface.width
    IN  /\ call.tileColumnIndex * image.d_w <= x
        /\ x < (call.tileColumnIndex + 1) * image.d_w
        /\ call.tileRowIndex * image.d_h <= y
        /\ y < (call.tileRowIndex + 1) * image.d_h

\* C9: ConvertAlphaImage writes the alpha channel only: for every output
\* format and tile index the R, G and B channels of every pixel of the surface
\* keep their values, and so does alpha of every pixel outside the clipped
\* destination rectangle of the tile; nothing outside the surface is written
C9_AlphaOnly ==
    (call.op = "ConvertAlphaImage" /\ call.outputImage # NULL) =>
        /\ \A i \in DOMAIN surface.px :
            /\ surface.px[i].r = call.before[i].r
            /\ surface.px[i].g = call.before[i].g
            /\ surface.px[i].b = call.before[i].b
            /\ (call.frame = NULL \/ ~InClippedRectangle(i))
                    => surface.px[i].a = call.before[i].a
        /\ ~call.oob

\* the greatest value of a colour channel of the surface
MaxChannel == IF surface.format = "Bgra32" THEN 255
              ELSE IF surface.format = "Rgba64" THEN 65535 ELSE 1

\* a colour conversion of tile (0, 0) by a routine that reads the samples in
\* the width the frame stores them
PlainColorConversion ==
    /\ call.op = "ConvertColorImage"
    /\ call.routine # "none"
    /\ call.tileColumnIndex = 0 /\ call.tileRowIndex = 0
    /\ (surface.format = "Bgra32") = (BytesPerSample(Deref(call.frame)) = 1)
    /\ call.colorInfo # Ptr(FullRangeCICP("YCgCoRe"))

\* C10: every colour routine clamps each channel to [0, 1] before it scales
\* it: every stored colour channel lies between 0 and the greatest value of
\* the format, and for a limited-range monochrome frame a luma code below the
\* black level gives 0 and one above the white level the greatest value
C10_ClampedBeforeScaling ==
    PlainColorConversion =>
        LET image == Deref(call.frame)
            black == 16 * Pow2(image.bit_depth - 8)
            white == 235 * Pow2(image.bit_depth - 8)
            max   == RInt(MaxChannel)
        IN  \A x \in 0 .. call.copy.copyWidth - 1, y \in 0 .. call.copy.copyHeight - 1 :
                LET p    == surface.px[y * surface.width + x]
                    code == PlaneSample(image, "Y", x, y)
                IN  \A c \in {"r", "g", "b"} :
                        /\ ~RLess(p[c], RInt(0)) /\ ~RLess(max, p[c])
                        /\ (image.monochrome /\ image.range = "StudioRange" /\ code < black)
                                => p[c] = RInt(0)
                        /\ (image.monochrome /\ image.range = "StudioRange" /\ code > white)
                                => p[c] = max

\* the routines that reconstruct R, G and B in the integer domain
YCoCgRRoutines == {"YUV16ToRGB8ColorYCoCgR", "YUV16ToRGB16ColorYCoCgR"}

\* C11: a colour frame converted under matrixCoefficients YCgCo-Re or
\* YCgCo-Ro goes through the integer Re/Ro reconstruction for each of the
\* output formats Bgra32, Rgba64 and Rgba128Float: the routine that runs is
\* never one of the routines of the linear inverse
C11_YCgCoRDedicated ==
    (/\ call.op = "ConvertColorImage"
     /\ call.routine # "none"
     /\ ~Deref(call.frame).monochrome
     /\ Deref(call.colorInfo).matrixCoefficients \in {"YCgCoRe", "YCgCoRo"})
        => call.routine \in YCoCgRRoutines

\* C17: the conversions of two tiles of one tile size with different
\* (tileColumnIndex, tileRowIndex) store to disjoint sets of pixels, and one
\* conversion stores each pixel of the clipped destination rectangle of its
\* tile once and no pixel twice
C17_TilesDisjoint ==
    RoutineRan =>
        LET image == Deref(call.frame)
        IN  /\ \A other \in TileColumnIndexes \X TileRowIndexes :
                    other # <<call.tileColumnIndex, call.tileRowIndex>> =>
                        StoredIndexes(image, call.tileColumnIndex, call.tileRowIndex, surface)
                            \cap StoredIndexes(image, other[1], other[2], surface) = {}
            /\ \A i \in DOMAIN surface.px :
                    Cardinality(StoresTo(image, call.tileColumnIndex, call.tileRowIndex,
                                         surface, i))
                        = IF InClippedRectangle(i) THEN 1 ELSE 0

\* the 8-bit value the luma lookup pipeline gives a raw code i of a frame:
\* the unorm of the luma table clamped to 0 .. 1 and scaled to 0 .. 255
PipelineLimitedToFull(image, i) ==
    ScaleRound(Clamp(unormFloatTableY(image, i), RInt(0), RInt(1)), 255)

\* an Identity routine of 8-bit output ran on a limited-range frame
StudioIdentity8 ==
    /\ RoutineRan
    /\ call.routine \in {"Identity8ToRGB8Color", "Identity8ToRGB8Mono"}
    /\ Deref(call.frame).bit_depth = 8
    /\ Deref(call.frame).range = "StudioRange"

\* C21: for an 8-bit Identity frame in limited range the table of
\* Identity8ToRGB8Color and Identity8ToRGB8Mono gives every raw code i in
\* 0 .. 255 the value round(255 * clamp((i - 16) / 219, 0, 1)) of the luma
\* lookup pipeline, so 16 gives 0 and 235 gives 255, and it does not decrease
C21_IdentityTableMatchesPipeline ==
    StudioIdentity8 =>
        /\ \A i \in 0 .. 255 :
                limitedToFullY(i) = PipelineLimitedToFull(Deref(call.frame), i)
        /\ limitedToFullY(16) = 0
        /\ limitedToFullY(235) = 255
        /\ \A i \in 0 .. 254 : limitedToFullY(i) <= limitedToFullY(i + 1)

\* the routines that take the decode mode of GetYUVDecodeInfo
ModeRoutines == {"YUV8ToRGB8Color", "YUV16ToRGB16Color", "YUV16ToRGB32Color"}

\* a colour conversion whose routine ran on a frame that is not 4:4:4
NotI444Converted ==
    /\ RoutineRan
    /\ call.op = "ConvertColorImage"
    /\ Deref(call.frame).fmt \notin {"I444", "I44416"}

\* C22: the YCgCo inverse (t = Y - Cg, G = Y + Cg, B = t - Co, R = t + Co) is
\* reachable only for a 4:4:4 frame: for a frame that is not 4:4:4 the routine
\* ConvertColorImage runs never decodes in the YCgCo mode, whatever the
\* matrix coefficients of the colour description
C22_YCgCoOnlyFor444 ==
    NotI444Converted =>
        /\ GetYUVDecodeInfo(Deref(call.frame), Deref(call.colorInfo)).mode # "YCgCo"
        /\ call.routine \in ModeRoutines =>
                GetYUVDecodeInfo(Deref(call.frame), Deref(call.colorInfo)).mode
                    = "YUVCoefficiants"

\* a 4:2:0 frame described as YCgCo went through YUV8ToRGB8Color
C22_Witness ==
    /\ NotI444Converted
    /\ Deref(call.frame).fmt = "I420"
    /\ Deref(call.colorInfo).matrixCoefficients = "YCgCo"
    /\ call.routine = "YUV8ToRGB8Color"
    /\ call.status = "Ok"

\* a colour routine ran over copy sizes no greater than the tile
ClippedColorCopy ==
    /\ RoutineRan
    /\ call.op = "ConvertColorImage"
    /\ ~Deref(call.frame).monochrome
    /\ call.copy.copyWidth <= Deref(call.frame).d_w
    /\ call.copy.copyHeight <= Deref(call.frame).d_h

\* the colour routines that read uint8_t samples and uint16_t samples
Routines8 == {"YUV8ToRGB8Color", "Identity8ToRGB8Color"}
Routines16 ==
    {"YUV16ToRGB16Color", "YUV16ToRGB32Color", "Identity16ToRGB16Color",
     "Identity16ToRGB32Color", "YUV16ToRGB8ColorYCoCgR", "YUV16ToRGB16ColorYCoCgR"}

\* C23: for every frame geometry and every clipped copy size the chroma sample
\* read for the luma position (x, y) has the index (x >> x_chroma_shift,
\* y >> y_chroma_shift), and the index lies inside the chroma plane: column
\* below ceil(d_w / 2^x_chroma_shift), row below ceil(d_h / 2^y_chroma_shift);
\* a routine that reads samples of the width the frame stores reads inside
\* the planes
C23_ChromaIndexInPlane ==
    ClippedColorCopy =>
        LET image == Deref(call.frame)
            xs == XChromaShift(image.fmt)
            ys == YChromaShift(image.fmt)
        IN  \A x \in 0 .. call.copy.copyWidth - 1, y \in 0 .. call.copy.copyHeight - 1 :
                /\ 2 * xs * ChromaIndex(image, x, y)[1] \in {xs * x, xs * (x - 1)}
                /\ xs = 0 => ChromaIndex(image, x, y)[1] = x
                /\ 2 * ys * ChromaIndex(image, x, y)[2] \in {ys * y, ys * (y - 1)}
                /\ ys = 0 => ChromaIndex(image, x, y)[2] = y
                /\ 2 * ChromaIndex(image, x, y)[1] < image.d_w + xs + (1 - xs) * image.d_w
                /\ 2 * ChromaIndex(image, x, y)[2] < image.d_h + ys + (1 - ys) * image.d_h
                /\ InPlane(image, "U", ChromaIndex(image, x, y)[1], ChromaIndex(image, x, y)[2])
                /\ InPlane(image, "V", ChromaIndex(image, x, y)[1], ChromaIndex(image, x, y)[2])
                /\ (call.routine \in Routines8 /\ BytesPerSample(image) = 1)
                        => Unorm8(image, x, y).ok
                /\ (call.routine \in Routines16 /\ BytesPerSample(image) = 2)
                        => Unorm16(image, x, y).ok

\* YUV8ToRGB8Color read a 4:2:0 tile of odd height whose width the right edge
\* of the surface cut
C23_Witness ==
    /\ ClippedColorCopy
    /\ call.routine = "YUV8ToRGB8Color"
    /\ Deref(call.frame).fmt = "YV12"
    /\ Deref(call.frame).d_h = 1
    /\ 0 < call.copy.copyWidth
    /\ call.copy.copyWidth < Deref(call.frame).d_w

\* C25: when ConvertColorImage or ConvertAlphaImage returns a status other
\* than Ok, no routine ran and no pixel of the output surface was modified
C25_FailureLeavesSurface ==
    (call.op \in {"ConvertColorImage", "ConvertAlphaImage"} /\ call.status # "Ok") =>
        /\ call.routine = "none"
        /\ ~call.oob
        /\ surface.px = call.before

\* a conversion into a surface of the caller failed on the bit depth of the frame
C25_Witness ==
    /\ call.op \in {"ConvertColorImage", "ConvertAlphaImage"}
    /\ call.outputImage # NULL
    /\ call.frame # NULL
    /\ call.status = "UnsupportedBitDepth"
    /\ surface.px = call.before

-----------------------------------------------------------------------------
(* Properties of the resolver and of the lookup tables, checked under        *)
(* SpecResolve                                                                *)

\* kr and kb of the table-backed matrix coefficients, in units of 1/10000
FixedCoefficients ==
    [BT709 |-> <<2126, 722>>, FCC |-> <<3000, 1100>>, BT470BG |-> <<2990, 1140>>,
     BT601 |-> <<2990, 1140>>, Smpte240 |-> <<2120, 870>>, BT2020NCL |-> <<2627, 593>>]

\* the luminance coefficients k of the primaries p reproduce the white point:
\* with the scale k / Y of each primary, the X and the Z of the three
\* primaries add up to those of the white point at luminance 1; a primary of
\* no luminance has the coefficient 0
WhitePointReproduced(k, p) ==
    LET Z(i) == RSub(RInt(1), RAdd(p[i], p[i + 1]))
        Sr == RDiv(k.kr, p[2])
        Sg == RDiv(k.kg, p[4])
        Sb == RDiv(k.kb, p[6])
    IN  IF p[2].n = 0 \/ p[4].n = 0 \/ p[6].n = 0
        THEN /\ p[2].n = 0 => k.kr = RInt(0)
             /\ p[6].n = 0 => k.kb = RInt(0)
        ELSE /\ RDot(Sr, p[1], Sg, p[3], Sb, p[5]) = RDiv(p[7], p[8])
             /\ RDot(Sr, Z(1), Sg, Z(3), Sb, Z(5)) = RDiv(Z(7), p[8])

\* C12: for every CICP input GetYUVCoefficiants gives kg = 1 - kr - kb and
\* so kr + kg + kb = 1; the table-backed matrix coefficients give their fixed
\* kr and kb, the chromaticity-derived value gives the kr and kb that follow
\* from the primaries and the white point, and every other value gives
\* kr = 0.299 and kb = 0.114
C12_CoefficientsSumToOne ==
    call.op = "GetYUVCoefficiants" =>
        LET k  == call.yuvData
            mc == call.colorInfo.matrixCoefficients
        IN  /\ IsFinite(k.kr) /\ IsFinite(k.kg) /\ IsFinite(k.kb)
            /\ k.kg = RSub(RSub(RInt(1), k.kr), k.kb)
            /\ RAdd(RAdd(k.kr, k.kg), k.kb) = RInt(1)
            /\ mc \in DOMAIN FixedCoefficients =>
                /\ k.kr = Rat(FixedCoefficients[mc][1], 10000)
                /\ k.kb = Rat(FixedCoefficients[mc][2], 10000)
            /\ mc = "CromatNCL" =>
                WhitePointReproduced(k, avifNclxColourPrimariesGetValues(
                                            call.colorInfo.colorPrimaries))
            /\ mc \notin DOMAIN FixedCoefficients \cup {"CromatNCL"} =>
                /\ k.kr = Rat(299, 1000)
                /\ k.kb = Rat(114, 1000)

\* chromaticity-derived coefficients of primaries of three decimals that
\* differ from every fixed pair and from the fallback
C12_Witness ==
    /\ call.op = "GetYUVCoefficiants"
    /\ call.colorInfo.matrixCoefficients = "CromatNCL"
    /\ call.colorInfo.colorPrimaries = "GenericFilm"
    /\ \A mc \in DOMAIN FixedCoefficients :
            call.yuvData.kr # Rat(FixedCoefficients[mc][1], 10000)
    /\ RLess(RInt(0), call.yuvData.kb)

\* the tables of a limited-range frame were constructed
LimitedRangeTables ==
    /\ call.op = "YUVLookupTables"
    /\ call.thrown = "none"
    /\ call.range = "StudioRange"

\* C13: in the luma table of a limited-range frame of bit depth d in
\* {8, 10, 12, 16} the black code 16 * 2^(d-8) maps to exactly 0 and the
\* white code 235 * 2^(d-8) to exactly 1 (16 to 0 and 235 to 1 for 8 bits),
\* and no entry is less than the entry of the code before it
C13_LimitedRangeLuma ==
    LimitedRangeTables =>
        LET table == call.tables.unormFloatTableY
            scale == Pow2(call.bit_depth - 8)
        IN  /\ call.bit_depth \in {8, 10, 12, 16}
            /\ DOMAIN table = 0 .. Pow2(call.bit_depth) - 1
            /\ table[16 * scale] = RInt(0)
            /\ table[235 * scale] = RInt(1)
            /\ \A i \in 1 .. Pow2(call.bit_depth) - 1 : ~RLess(table[i], table[i - 1])

\* the 16-bit table of a limited-range frame, whose entries below the black
\* code are negative and above the white code greater than 1
C13_Witness ==
    /\ LimitedRangeTables
    /\ call.bit_depth = 16
    /\ RLess(call.tables.unormFloatTableY[4095], RInt(0))
    /\ RLess(RInt(1), call.tables.unormFloatTableY[60161])

-----------------------------------------------------------------------------
(* Properties of the decoder entry points, checked under Spec *)

\* the CICP data a frame carries itself
OwnCICP(frame) == CICP(frame.cp, frame.tc, frame.mc, frame.range = "FullRange")

\* tile i of the log follows a first tile (0, 0) that was converted, and its
\* conversion gets the memory it asks for
FollowsFirstTile(i) ==
    /\ i \in 2 .. Len(log)
    /\ log[1].tileColumnIndex = 0 /\ log[1].tileRowIndex = 0
    /\ log[1].status = "Ok"
    /\ log[i].alloc

\* C2: after a first tile whose own CICP data is BT.709, full range, has been
\* converted with no colour information of the container, the conversion of
\* a later tile of the image whose own CICP data differs in one of the four
\* fields (and that has the bit depth and the plane format of the first)
\* returns TileNclxProfileMismatch and leaves the surface as it was
C2_TileNclxProfileMismatch ==
    \A i \in DOMAIN log :
        (/\ FollowsFirstTile(i)
         /\ log[i].frame.bit_depth = log[1].frame.bit_depth
         /\ log[i].frame.fmt = log[1].frame.fmt
         /\ log[1].frame.mc = "BT709" /\ log[1].frame.range = "FullRange"
         /\ log[1].colorInfo = Ptr(OwnCICP(log[1].frame))
         /\ log[i].colorInfo \in {Ptr(OwnCICP(log[1].frame)), Ptr(OwnCICP(log[i].frame))}
         /\ OwnCICP(log[i].frame) # OwnCICP(log[1].frame))
            => log[i].status = "TileNclxProfileMismatch" /\ ~log[i].changed

\* the plane format fmt fits the chroma subsampling recorded
CompatibleFormat(fmt, chromaSubsampling) ==
    /\ chromaSubsampling = "Subsampling420" => fmt \in Formats420
    /\ chromaSubsampling = "Subsampling422" => fmt \in Formats422
    /\ chromaSubsampling = "Subsampling444" => fmt \in Formats444

\* C3: a tile after the first (with the CICP data of the first) whose bit
\* depth differs from the one recorded for the first tile, or whose plane
\* format does not fit the chroma subsampling recorded, is rejected with
\* TileFormatMismatch, and what was recorded for the first tile is still
\* recorded when a later tile is converted
C3_TileFormatMismatch ==
    \A i \in DOMAIN log :
        (FollowsFirstTile(i) /\ OwnCICP(log[i].frame) = OwnCICP(log[1].frame)) =>
            /\ (\/ log[i].frame.bit_depth # log[1].recorded.bitDepth
                \/ ~CompatibleFormat(log[i].frame.fmt, log[1].recorded.chromaSubsampling))
                    => log[i].status = "TileFormatMismatch"
            /\ log[i].recorded.bitDepth = log[1].recorded.bitDepth
            /\ log[i].recorded.chromaSubsampling = log[1].recorded.chromaSubsampling

\* a DecoderLoadImage call that was given every required input
LoadedWithInputs ==
    /\ call.op = "DecoderLoadImage"
    /\ call.a.compressedImage # NULL /\ call.a.compressedImageSize > 0
    /\ call.a.layerInfo # NULL /\ call.a.imageHandle # NULL /\ call.a.imageInfo # NULL

\* the error of the first of the codec's init and option-control calls that
\* fails in the run of the call
InitError ==
    IF call.codec.dec_init # "AOM_CODEC_OK" THEN call.codec.dec_init
    ELSE IF call.codec.set_output_all_layers # "AOM_CODEC_OK" THEN call.codec.set_output_all_layers
    ELSE call.codec.set_operating_point

\* C5: DecoderLoadImage always returns a status and no exception leaves it;
\* when an init or option-control call of the codec reports a memory error
\* the status is OutOfMemory, when it reports another error the status is
\* CodecInitFailed, and in both cases *imageHandle is not written
C5_LoadImageReturnsStatus ==
    LoadedWithInputs =>
        /\ call.exception = "none"
        /\ call.status \in DecoderStatus
        /\ (call.alloc /\ InitError = "AOM_CODEC_MEM_ERROR")
                => call.status = "OutOfMemory" /\ imageHandle = call.handleBefore
        /\ (call.alloc /\ InitError = "AOM_CODEC_ERROR")
                => call.status = "CodecInitFailed" /\ imageHandle = call.handleBefore

\* a converter call, direct or through a handle, of the colour or of the
\* alpha converter
ColorCall == call.op \in {"ConvertColorImage", "DecoderConvertColorImage"}
AlphaCall == call.op \in {"ConvertAlphaImage", "DecoderConvertAlphaImage"}

\* a call of a decode entry point with a required input missing
InputMissing ==
    \/ call.op = "DecoderLoadImage" /\ ~LoadedWithInputs
    \/ call.op \in {"DecoderConvertColorImage", "DecoderConvertAlphaImage"}
            /\ call.imageHandle = NULL
    \/ ColorCall /\ (call.frame = NULL \/ call.colorInfo = NULL \/ call.outputImage = NULL)
    \/ AlphaCall /\ (call.frame = NULL \/ call.outputImage = NULL)

\* C6: every decode entry point returns NullParameter when a required input
\* is missing, and then it calls no codec function, stores no handle, writes
\* no image info and no pixel; without container colour information, and
\* with every required input, DecoderLoadImage does not return NullParameter
C6_NullParameter ==
    /\ InputMissing =>
        /\ call.status = "NullParameter"
        /\ call.op = "DecoderLoadImage" =>
            /\ call.exception = "none" /\ ~call.codecCalls
            /\ imageHandle = call.handleBefore /\ imageInfo = call.infoBefore
        /\ (ColorCall \/ AlphaCall) =>
            /\ call.routine = "none" /\ ~call.oob
            /\ surface.px = call.before
    /\ (LoadedWithInputs /\ call.a.containerColorInfo = NULL)
            => call.status # "NullParameter"

\* C6 is met by a load with zero-length data after an image was loaded and
\* its handle freed
C6_Witness ==
    /\ call.op = "DecoderLoadImage"
    /\ call.a.compressedImage # NULL /\ call.a.compressedImageSize = 0
    /\ call.status = "NullParameter"
    /\ call.infoBefore # NoImageInfo
    /\ call.handleBefore # NULL

\* the decoders of the handles other than h are what they were before the call
OtherDecodersKept(h) ==
    \A k \in DOMAIN call.decodersBefore : k # h => decoders[k] = call.decodersBefore[k]

\* C18: DecoderLoadImage stores a handle in *imageHandle only when it returns
\* Ok, and then the handle of the decoder it created; a decoder created by a
\* load that returns another status is destroyed before the call returns; the
\* convert calls leave every decoder alive and unchanged; DecoderFreeImageHandle
\* destroys the decoder of a non-null handle, that decoder only, and does
\* nothing for a null handle
C18_HandleOwnership ==
    /\ call.op = "DecoderLoadImage" =>
            IF call.status = "Ok"
            THEN /\ call.created /\ ~call.destroyed
                 /\ imageHandle # NULL
                 /\ Deref(imageHandle) \in LiveHandles
                 /\ Deref(imageHandle) \in DOMAIN call.decodersBefore
                        => call.decodersBefore[Deref(imageHandle)] = NULL
                 /\ OtherDecodersKept(Deref(imageHandle))
            ELSE /\ imageHandle = call.handleBefore
                 /\ decoders = call.decodersBefore
                 /\ call.created => call.destroyed
    /\ call.op \in {"DecoderConvertColorImage", "DecoderConvertAlphaImage"} =>
            decoders = call.decodersBefore
    /\ call.op = "DecoderFreeImageHandle" =>
            IF call.handle = NULL
            THEN decoders = call.decodersBefore
            ELSE /\ call.decodersBefore[Deref(call.handle)] # NULL
                 /\ decoders[Deref(call.handle)] = NULL
                 /\ OtherDecodersKept(Deref(call.handle))

\* a decoder that was loaded and converted from is freed through its handle
C18_Witness ==
    /\ call.op = "DecoderFreeImageHandle"
    /\ call.handle # NULL
    /\ call.handle = imageHandle
    /\ decoders[Deref(call.handle)] = NULL
    /\ log # <<>>

-----------------------------------------------------------------------------
(* Properties of the encoder path, checked under SpecEncode *)

\* a CompressImage call that passed the null check and the progress callback
Compressing ==
    /\ call.op = "CompressImage"
    /\ call.status # "NullParameter"
    /\ call.run.proceed

\* C7: the encode entry point returns UnknownYUVFormat exactly when the
\* requested chroma format is none of the five YUVChromaSubsampling values,
\* and with each of the five, IdentityMatrix included, it calls the
\* BGRA-to-planar conversion.
C7_UnknownYUVFormat ==
    Compressing =>
        LET yuvFormat == Deref(call.a.encodeOptions).yuvFormat
        IN  /\ call.status = "UnknownYUVFormat" <=> yuvFormat \notin YUVChromaSubsampling
            /\ yuvFormat \in YUVChromaSubsampling => call.converted

\* a frame made in Identity mode as full-range 8-bit 4:4:4 was converted back
\* under matrixCoefficients = Identity
IdentityRoundTrip ==
    /\ call.op = "ConvertColorImage"
    /\ call.yuvFormat = "IdentityMatrix"
    /\ call.aomFormat = "I444"
    /\ call.colorInfo.matrixCoefficients = "Identity"

\* C8: a Bgra32 surface converted to planes in Identity mode and converted
\* back with ConvertColorImage (Identity, Bgra32 output, tile (0, 0)) comes
\* back with the blue, green and red channel of every pixel as they were.
C8_IdentityRoundTrip ==
    IdentityRoundTrip =>
        /\ call.status = "Ok"
        /\ call.routine = "Identity8ToRGB8Color"
        /\ surface.width = call.source.width
        /\ surface.height = call.source.height
        /\ \A i \in DOMAIN call.source.px : \A c \in {"b", "g", "r"} :
                surface.px[i][c] = call.source.px[i][c]

\* a round trip of a surface of several rows and columns, none of whose
\* pixels the new surface held before, with the three channels of a pixel
\* all different
C8_Witness ==
    /\ IdentityRoundTrip
    /\ call.status = "Ok"
    /\ call.source.width > 2
    /\ call.source.height > 2
    /\ \A i \in DOMAIN call.source.px :
            call.source.px[i] # InitialPixel("Bgra32", i)
    /\ \E i \in DOMAIN call.source.px :
            /\ call.source.px[i].r # call.source.px[i].g
            /\ call.source.px[i].g # call.source.px[i].b
            /\ call.source.px[i].r # call.source.px[i].b

\* a surface was converted to a 4:2:0 frame by ColorToYUV8
Converted420 ==
    /\ call.op = "ConvertColorToAOMImage"
    /\ call.yuvFormat = "Subsampling420"
    /\ call.aomImage # NULL

\* the Y, U and V of pixel (x, y) of the source of the call, before rounding
SourceYUV(x, y) ==
    LET p == ColorBgraAt(call.bgraImage, x, y)
    IN  RGBToYUV([r |-> Rat(p.r, 255), g |-> Rat(p.g, 255), b |-> Rat(p.b, 255)],
                 GetYUVCoefficiants(call.colorInfo))

\* the average of channel chan over the pixels of the 2x2 block of the chroma
\* sample (cx, cy) that lie inside the source
BlockAverage(chan, cx, cy) ==
    LET inside(x, y) == x < call.bgraImage.width /\ y < call.bgraImage.height
        term(x, y) == IF inside(x, y) THEN SourceYUV(x, y)[chan] ELSE RInt(0)
        one(x, y)  == IF inside(x, y) THEN 1 ELSE 0
    IN  RDiv(RAdd(RAdd(term(2 * cx, 2 * cy), term(2 * cx + 1, 2 * cy)),
                  RAdd(term(2 * cx, 2 * cy + 1), term(2 * cx + 1, 2 * cy + 1))),
             RInt(one(2 * cx, 2 * cy) + one(2 * cx + 1, 2 * cy)
                    + one(2 * cx, 2 * cy + 1) + one(2 * cx + 1, 2 * cy + 1)))

\* C14: for every width and height from 1 on, odd ones included, the 4:2:0
\* path of ColorToYUV8 reads only pixels inside the image, stores every luma
\* sample exactly once, and stores every chroma sample (cx, cy) with
\* cx < ceil(width / 2) and cy < ceil(height / 2) exactly once, as the average
\* of the pixels of its 2x2 block that lie inside the image; the bottom-right
\* chroma sample of an odd-by-odd image is the U and V of the one last pixel
C14_Blocks420 ==
    Converted420 =>
        LET bgraImage == call.bgraImage
            image  == Deref(call.aomImage)
            width  == bgraImage.width
            height == bgraImage.height
            cw == (width + 1) \div 2
            ch == (height + 1) \div 2
            blocks == ColorToYUV8Blocks(bgraImage)
        IN  /\ \A block \in blocks : \A pixel \in BlockPixels(bgraImage, block) :
                    pixel[1] < width /\ pixel[2] < height
            /\ \A x \in 0 .. width - 1, y \in 0 .. height - 1 :
                /\ Cardinality({block \in blocks : <<x, y>> \in BlockPixels(bgraImage, block)}) = 1
                /\ image.planes.Y[y * width + x] = yuvToUNorm("Y", SourceYUV(x, y).y)
            /\ DOMAIN image.planes.U = 0 .. cw * ch - 1
            /\ DOMAIN image.planes.V = 0 .. cw * ch - 1
            /\ \A cx \in 0 .. cw - 1, cy \in 0 .. ch - 1 :
                /\ Cardinality({block \in blocks : ChromaSample420(block) = <<cx, cy>>}) = 1
                /\ image.planes.U[cy * cw + cx] = yuvToUNorm("U", BlockAverage("u", cx, cy))
                /\ image.planes.V[cy * cw + cx] = yuvToUNorm("V", BlockAverage("v", cx, cy))
            /\ (width % 2 = 1 /\ height % 2 = 1) =>
                /\ image.planes.U[ch * cw - 1]
                        = yuvToUNorm("U", SourceYUV(width - 1, height - 1).u)
                /\ image.planes.V[ch * cw - 1]
                        = yuvToUNorm("V", SourceYUV(width - 1, height - 1).v)

\* a 3x3 image whose last pixel has another chroma than the pixel before it
\* in its row and the pixel above it
C14_Witness ==
    /\ Converted420
    /\ call.bgraImage.width = 3
    /\ call.bgraImage.height = 3
    /\ LET U == Deref(call.aomImage).planes.U
       IN  U[3] # U[2] /\ U[3] # U[1]

\* a frame made by ColorToYUV8 in 4:2:0 from a surface of one colour was
\* converted back under the colour description of the frame
UniformRoundTrip420 ==
    /\ call.op = "ConvertColorImage"
    /\ call.yuvFormat = "Subsampling420"
    /\ \A i, j \in DOMAIN call.source.px : \A c \in {"b", "g", "r"} :
            call.source.px[i][c] = call.source.px[j][c]

\* C15: a surface in which every pixel has the same B, G and R, converted to
\* a full-range 8-bit 4:2:0 frame by ColorToYUV8 and converted back under
\* the same colour description, comes back with every pixel holding the same
\* B, G and R as every other pixel, for every size, odd widths and heights
\* included: the pixels at the edges do not differ from those inside
C15_UniformRoundTrip ==
    UniformRoundTrip420 =>
        /\ call.status = "Ok"
        /\ surface.width = call.source.width
        /\ surface.height = call.source.height
        /\ \A i, j \in DOMAIN surface.px : \A c \in {"b", "g", "r"} :
                surface.px[i][c] = surface.px[j][c]

\* the round trip of a 3x3 surface of one colour that is not a grey, through
\* the routine of the linear inverse, every pixel of the new surface stored
C15_Witness ==
    /\ UniformRoundTrip420
    /\ call.status = "Ok"
    /\ call.routine = "YUV8ToRGB8Color"
    /\ call.source.width = 3
    /\ call.source.height = 3
    /\ call.source.px[0].r # call.source.px[0].g
    /\ call.source.px[0].g # call.source.px[0].b
    /\ \A i \in DOMAIN surface.px : \A c \in {"b", "g", "r"} :
            surface.px[i][c] # InitialPixel("Bgra32", i)[c]

\* the alpha frame of a surface was converted back
AlphaRoundTrip ==
    /\ call.op = "ConvertAlphaImage"
    /\ call.yuvFormat = "Subsampling400"

\* C16: the alpha channel of a surface stored as the luma of a monochrome
\* frame by ConvertAlphaToAOMImage and, the samples passing the codec
\* unchanged, converted back by ConvertAlphaImage from the full-range 8-bit
\* frame into a Bgra32 surface comes back exactly: for every alpha from 0 to
\* 255 and every size the alpha of each pixel is the one of the source
C16_AlphaRoundTrip ==
    AlphaRoundTrip =>
        /\ call.status = "Ok"
        /\ call.routine = "YUV8ToAlpha8"
        /\ surface.width = call.source.width
        /\ surface.height = call.source.height
        /\ \A i \in DOMAIN call.source.px : surface.px[i].a = call.source.px[i].a

\* the round trip of a surface that holds every alpha from 0 to 255, none of
\* them the alpha the new surface held in that pixel before
C16_Witness ==
    /\ AlphaRoundTrip
    /\ call.status = "Ok"
    /\ {call.source.px[i].a : i \in DOMAIN call.source.px} = {RInt(a) : a \in 0 .. 255}
    /\ \A i \in DOMAIN surface.px : surface.px[i].a # InitialPixel("Bgra32", i).a

\* a frame made by a monochrome conversion into a 4:2:0 format
MonochromeFrame420 ==
    /\ call.op \in {"ConvertColorToAOMImage", "ConvertAlphaToAOMImage"}
    /\ call.aomImage # NULL
    /\ call.yuvFormat = "Subsampling400"
    /\ call.aomFormat \in Formats420

\* C19: after a monochrome conversion (ConvertAlphaToAOMImage, or
\* ConvertColorToAOMImage with Subsampling400) every sample of each of the
\* ceil(height / 2) rows of the U and V planes of the 4:2:0 frame is 0, for
\* odd and even heights
C19_ChromaZeroFilled ==
    MonochromeFrame420 =>
        LET image == Deref(call.aomImage)
            rows  == (image.d_h + 1) \div 2
            cols  == (image.d_w + 1) \div 2
        IN  \A plane \in {"U", "V"} :
                /\ DOMAIN image.planes[plane] = PlaneSamples(cols, rows)
                /\ \A i \in DOMAIN image.planes[plane] : image.planes[plane][i] = 0

\* the colour frames the call of the state produced, each with the colour
\* description the caller supplied for it
ColourFramesProduced ==
    IF call.op = "CompressImage" /\ call.color # NULL
    THEN {<<Deref(call.color), Deref(call.a.colorInfo)>>}
    ELSE IF call.op = "ConvertColorToAOMImage" /\ call.aomImage # NULL
    THEN {<<Deref(call.aomImage), call.colorInfo>>}
    ELSE {}

\* the alpha frames the call of the state produced
AlphaFramesProduced ==
    IF call.op = "CompressImage" /\ call.alpha # NULL
    THEN {Deref(call.alpha)}
    ELSE IF call.op = "ConvertAlphaToAOMImage" /\ call.aomImage # NULL
    THEN {Deref(call.aomImage)}
    ELSE {}

\* the colour primaries, transfer characteristics and matrix coefficients of
\* a frame
Tags(image) == <<image.cp, image.tc, image.mc>>

-----------------------------------------------------------------------------
(* YUVAImage.cpp, AV1Encoder.cpp: the encoder of a planar image. A plane is  *)
(* a sequence of rows, a row being what memcpy_s moves at once: row y of a   *)
(* plane the caller filled holds <<plane, y>>, a zeroed row holds "zero",    *)
(* and a row no store reached holds what the allocation left, <<"junk", j>>. *)
(* The AV1 encoder and the allocators are outside the program: each of       *)
(* their calls answers with one of the results it can give.                  *)

YUVFormat == {"Invalid", "I420", "I422", "I444"}

\* a plane of rows the caller filled through Set...PlaneValue or
\* SetAlphaPlaneFromImage
FilledPlane(name, rows) == [y \in 0 .. rows - 1 |-> <<name, y>>]

\* YUVAImage::Reset, and the image the constructor leaves
ResetImage ==
    [width |-> 0, height |-> 0, format |-> "Invalid",
     yPlane |-> NULL, uPlane |-> NULL, vPlane |-> NULL, alphaPlane |-> NULL,
     yPlaneStride |-> 0, uPlaneStride |-> 0, vPlaneStride |-> 0, alphaPlaneStride |-> 0]

\* uvHeight of YUVAImage::Initialize
InitializeUVHeight(height, yuvFormat) ==
    IF yuvFormat = "Subsampling420" THEN U32(height + 1) \div 2 ELSE height

\* uvWidth of YUVAImage::Initialize
InitializeUVWidth(width, yuvFormat) ==
    IF yuvFormat \in {"Subsampling420", "Subsampling422"} THEN U32(width + 1) \div 2 ELSE width

\* YUVAImage::Initialize followed by the caller's filling of the planes:
\* the status and the image; allocs is the number of allocations that succeed
Initialize(width, height, includeTransparency, yuvFormat, allocs) ==
    IF yuvFormat \notin {"Subsampling420", "Subsampling422", "Subsampling444"}
    THEN [status |-> "UnknownYUVFormat",
          image |-> [ResetImage EXCEPT !.width = width, !.height = height]]
    ELSE IF allocs < (IF includeTransparency THEN 4 ELSE 3)
    THEN [status |-> "OutOfMemory", image |-> ResetImage]
    ELSE [status |-> "Ok",
          image |->
            [width |-> width, height |-> height,
             format |-> IF yuvFormat = "Subsampling420" THEN "I420"
                        ELSE IF yuvFormat = "Subsampling422" THEN "I422" ELSE "I444",
             yPlane |-> Ptr(FilledPlane("Y", height)),
             uPlane |-> Ptr(FilledPlane("U", InitializeUVHeight(height, yuvFormat))),
             vPlane |-> Ptr(FilledPlane("V", InitializeUVHeight(height, yuvFormat))),
             alphaPlane |-> IF includeTransparency THEN Ptr(FilledPlane("A", height)) ELSE NULL,
             yPlaneStride |-> width,
             uPlaneStride |-> InitializeUVWidth(width, yuvFormat),
             vPlaneStride |-> InitializeUVWidth(width, yuvFormat),
             alphaPlaneStride |-> IF includeTransparency THEN width ELSE 0]]

HasAlphaChannel(image) == image.alphaPlane # NULL /\ image.alphaPlaneStride # 0

\* Get...RowPointerReadOnly: the row, or NULL when the plane is not there
GetRowPointerReadOnly(plane, stride, y) ==
    IF plane # NULL /\ stride # 0 THEN Ptr(Deref(plane)[y]) ELSE NULL

GetAlphaRowPointerReadOnly(image, y) ==
    GetRowPointerReadOnly(image.alphaPlane, image.alphaPlaneStride, y)

GetAOMChromaSubsampling(image, alpha) ==
    IF alpha THEN "I420"
    ELSE IF image.format \in {"I420", "I422", "I444"} THEN image.format
    ELSE "NONE"

\* GetUVHeight(const YUVAImage*)
YUVAGetUVHeight(image) ==
    IF image.format = "I420" THEN image.height \div 2 ELSE image.height

\* aom_img_alloc: a frame whose rows hold what the allocation left
AOMImageAlloc(fmt, d_w, d_h, junk) ==
    LET ch == ChromaExtent(d_h, YChromaShift(fmt))
    IN  [fmt |-> fmt, d_w |-> d_w, d_h |-> d_h, monochrome |-> FALSE, range |-> "StudioRange",
         planes |-> [Y |-> [y \in 0 .. d_h - 1 |-> <<"junk", junk>>],
                     U |-> [y \in 0 .. ch - 1 |-> <<"junk", junk>>],
                     V |-> [y \in 0 .. ch - 1 |-> <<"junk", junk>>]]]

\* memcpy_s(dstRow, stride, srcRow, stride): the row after the call; a count
\* of 0 copies nothing
CopiedRow(dstRow, srcRow, stride) ==
    IF stride = 0 \/ srcRow = NULL THEN dstRow ELSE Deref(srcRow)

\* FillAOMImage: the frame after the call
FillAOMImage(image, aomImage, alpha) ==
    LET imageHeight == image.height
        rows(plane) == DOMAIN aomImage.planes[plane]
    IN  IF alpha
        THEN LET uvHeight == imageHeight \div 2
             IN  [aomImage EXCEPT
                    !.range = "FullRange",
                    !.monochrome = TRUE,
                    !.planes =
                        [Y |-> [y \in rows("Y") |->
                                    IF y < imageHeight
                                    THEN CopiedRow(aomImage.planes.Y[y],
                                                   GetAlphaRowPointerReadOnly(image, y),
                                                   image.alphaPlaneStride)
                                    ELSE aomImage.planes.Y[y]],
                         U |-> [y \in rows("U") |->
                                    IF y < uvHeight THEN "zero" ELSE aomImage.planes.U[y]],
                         V |-> [y \in rows("V") |->
                                    IF y < uvHeight THEN "zero" ELSE aomImage.planes.V[y]]]]
        ELSE LET uvHeight == YUVAGetUVHeight(image)
             IN  [aomImage EXCEPT
                    !.range = "FullRange",
                    !.planes =
                        [Y |-> [y \in rows("Y") |->
                                    IF y < imageHeight
                                    THEN CopiedRow(aomImage.planes.Y[y],
                                                   GetRowPointerReadOnly(image.yPlane, image.yPlaneStride, y),
                                                   image.yPlaneStride)
                                    ELSE aomImage.planes.Y[y]],
                         U |-> [y \in rows("U") |->
                                    IF y < uvHeight
                                    THEN CopiedRow(aomImage.planes.U[y],
                                                   GetRowPointerReadOnly(image.uPlane, image.uPlaneStride, y),
                                                   image.uPlaneStride)
                                    ELSE aomImage.planes.U[y]],
                         V |-> [y \in rows("V") |->
                                    IF y < uvHeight
                                    THEN CopiedRow(aomImage.planes.V[y],
                                                   GetRowPointerReadOnly(image.vPlane, image.vPlaneStride, y),
                                                   image.vPlaneStride)
                                    ELSE aomImage.planes.V[y]]]]

-----------------------------------------------------------------------------
(* AV1Encoder.cpp: CompressYUVAImage as a process. call holds the arguments, *)
(* the caller's four output variables, the locals of the functions on the    *)
(* stack and the position pc; log holds, in order, the calls made to the     *)
(* progress callback, the AV1 encoder and the allocators.                    *)

\* an entry of log: the function called, a number (the progress value
\* reported, the buffer, or for aom_codec_encode whether a frame is given)
\* and whether the call succeeded (for the callback, its answer)
Event(e, n, ok) == [e |-> e, n |-> n, ok |-> ok]

\* widths and heights of the images: one pixel, even, and odd height
YUVASizes == {<<1, 1>>, <<2, 2>>, <<2, 3>>}

\* the images a caller passes: initialised in every format with and without
\* an alpha plane, and one left as constructed
YUVAImages ==
    {Initialize(s[1], s[2], t, f, 4).image :
        s \in YUVASizes, t \in BOOLEAN,
        f \in {"Subsampling420", "Subsampling422", "Subsampling444"}}
        \cup {ResetImage}

\* which of the four output pointers the caller passes
OutputPointers ==
    LET all == [compressedColorImage |-> TRUE, compressedColorImageSize |-> TRUE,
                compressedAlphaImage |-> TRUE, compressedAlphaImageSize |-> TRUE]
    IN  {all,
         [all EXCEPT !.compressedAlphaImage = FALSE, !.compressedAlphaImageSize = FALSE],
         [all EXCEPT !.compressedAlphaImageSize = FALSE],
         [all EXCEPT !.compressedColorImageSize = FALSE],
         [all EXCEPT !.compressedColorImage = FALSE]}

\* a pointer value the caller's variable held before the call, owned by nobody
StalePointer == Ptr(0)

\* what the caller's output variables hold when the call is made: cleared,
\* or whatever was there
CallerOutputs ==
    {[compressedColorImage |-> NULL, compressedColorImageSize |-> 0,
      compressedAlphaImage |-> NULL, compressedAlphaImageSize |-> 0],
     [compressedColorImage |-> StalePointer, compressedColorImageSize |-> 7,
      compressedAlphaImage |-> StalePointer, compressedAlphaImageSize |-> 7]}

\* progressDone of the caller's ProgressContext when the call is made
ProgressStarts == {0, 2}

\* pkt->data.frame.sz of a frame packet
FramePacketSizes == {4, 9}

\* the kinds of answer of aom_codec_get_cx_data: no packet, a frame packet,
\* a packet of another kind
PacketKinds == {"none", "frame", "other"}

\* the greatest number of packets of another kind the encoder hands out
MaxOtherPackets == 1

InitYUVA ==
    /\ surface = MakeSurface(1, 1, "Bgra32")
    /\ decoders = <<>>
    /\ imageHandle = NULL
    /\ imageInfo = NoImageInfo
    /\ call = NoCall
    /\ log = <<>>

\* CompressYUVAImage is at position pc
At(pc) == call.op = "CompressYUVAImage" /\ call.pc = pc

\* CompressYUVAImage up to the call of the progress callback: the checks and
\* the resets of the output variables
CallCompressYUVAImage ==
    /\ call.op = "none"
    /\ \E image \in YUVAImages, given \in OutputPointers, out \in CallerOutputs,
          progressDone \in ProgressStarts :
        LET start == [op |-> "CompressYUVAImage", pc |-> "progressCallback",
                      image |-> image, given |-> given, entry |-> out, out |-> out,
                      progressStart |-> progressDone, progressDone |-> progressDone,
                      alpha |-> FALSE, frame |-> NULL, profile |-> -1,
                      codec |-> FALSE, flushed |-> FALSE, others |-> 0,
                      output |-> [buf |-> NULL, sz |-> 0],
                      status |-> "Ok", heap |-> {}, allocated |-> 0]
            colorReset == [out EXCEPT !.compressedColorImage = NULL]
            alphaReset == [colorReset EXCEPT !.compressedAlphaImage = NULL,
                                             !.compressedAlphaImageSize = 0]
        IN  call' =
                IF ~(given.compressedColorImage /\ given.compressedColorImageSize)
                THEN [start EXCEPT !.status = "NullParameter", !.pc = "returned"]
                ELSE IF HasAlphaChannel(image)
                THEN IF given.compressedAlphaImage /\ given.compressedAlphaImageSize
                     THEN [start EXCEPT !.out = alphaReset]
                     ELSE [start EXCEPT !.out = colorReset, !.status = "NullParameter",
                                        !.pc = "returned"]
                ELSE [start EXCEPT !.out = colorReset]
    /\ UNCHANGED <<surface, decoders, imageHandle, imageInfo, log>>

\* a callback whose answer CompressYUVAImage does not look at
CompressYUVAImageProgressIgnored ==
    /\ At("progressCallback")
    /\ \E answer \in BOOLEAN :
        /\ log' = Append(log, Event("progressCallback", U32(call.progressDone + 1), answer))
        /\ call' = [call EXCEPT !.progressDone = U32(call.progressDone + 1),
                                !.pc = "EncodeYUVAImage"]
    /\ UNCHANGED <<surface, decoders, imageHandle, imageInfo>>

\* progressContext->progressCallback(++progressContext->progressDone, ...)
\* of CompressYUVAImage
CompressYUVAImageProgress ==
    /\ At("progressCallback")
    /\ \E answer \in BOOLEAN :
        LET done == U32(call.progressDone + 1)
        IN  /\ log' = Append(log, Event("progressCallback", done, answer))
            /\ call' = IF answer
                       THEN [call EXCEPT !.progressDone = done, !.pc = "EncodeYUVAImage"]
                       ELSE [call EXCEPT !.progressDone = done, !.status = "UserCancelled",
                                         !.pc = "returned"]
    /\ UNCHANGED <<surface, decoders, imageHandle, imageInfo>>

\* EncodeYUVAImage up to the call of EncodeAOMImage: the frame is allocated
\* and filled
EncodeYUVAImageAlloc ==
    /\ At("EncodeYUVAImage")
    /\ LET aomFormat == GetAOMChromaSubsampling(call.image, call.alpha)
       IN  IF aomFormat = "NONE"
           THEN /\ call' = [call EXCEPT !.status = "UnknownYUVFormat",
                                        !.pc = "CompressYUVAImage"]
                /\ UNCHANGED log
           ELSE \E ok \in BOOLEAN, junk \in JunkSamples :
                   IF ~ok
                   THEN /\ log' = Append(log, Event("aom_img_alloc", 0, FALSE))
                        /\ call' = [call EXCEPT !.status = "OutOfMemory",
                                                !.pc = "CompressYUVAImage"]
                   ELSE /\ log' = log \o <<Event("aom_img_alloc", 0, TRUE),
                                           Event("FillAOMImage",
                                                 IF call.alpha THEN 1 ELSE 0, TRUE)>>
                        /\ call' = [call EXCEPT
                                      !.frame = Ptr(FillAOMImage(
                                                      call.image,
                                                      AOMImageAlloc(aomFormat, call.image.width,
                                                                    call.image.height, junk),
                                                      call.alpha)),
                                      !.pc = "EncodeAOMImage"]
    /\ UNCHANGED <<surface, decoders, imageHandle, imageInfo>>

\* EncodeAOMImage up to the call of DoOnePass: the configuration
EncodeAOMImageConfig ==
    /\ At("EncodeAOMImage")
    /\ \E error \in {"AOM_CODEC_OK", "AOM_CODEC_ERROR"} :
        LET fmt == Deref(call.frame).fmt
        IN  call' =
                IF error # "AOM_CODEC_OK"
                THEN [call EXCEPT !.status = "CodecInitFailed", !.pc = "aom_img_free"]
                ELSE IF fmt \notin {"I420", "I422", "I444"}
                THEN [call EXCEPT !.status = "UnknownYUVFormat", !.pc = "aom_img_free"]
                ELSE [call EXCEPT !.profile = IF fmt = "I420" THEN 0
                                              ELSE IF fmt = "I422" THEN 2 ELSE 1,
                                  !.output = [buf |-> NULL, sz |-> 0],
                                  !.pc = "InitializeEncoder"]
    /\ UNCHANGED <<surface, decoders, imageHandle, imageInfo, log>>

\* InitializeEncoder, called by DoOnePass
DoOnePassInitialize ==
    /\ At("InitializeEncoder")
    /\ \E error \in aom_codec_err_t :
        /\ log' = Append(log, Event("aom_codec_enc_init", 0, error = "AOM_CODEC_OK"))
        /\ call' =
            IF error = "AOM_CODEC_OK"
            THEN [call EXCEPT !.codec = TRUE, !.status = "Ok", !.pc = "aom_codec_encode"]
            ELSE [call EXCEPT !.status = IF error = "AOM_CODEC_MEM_ERROR"
                                         THEN "OutOfMemory" ELSE "CodecInitFailed",
                              !.pc = "aom_img_free"]
    /\ UNCHANGED <<surface, decoders, imageHandle, imageInfo>>

\* aom_codec_encode(&codec, frame, 0, 1, 0) of DoOnePass
DoOnePassEncode ==
    /\ At("aom_codec_encode")
    /\ \E encodeError \in {"AOM_CODEC_OK", "AOM_CODEC_ERROR"} :
        /\ log' = Append(log, Event("aom_codec_encode", 1, encodeError = "AOM_CODEC_OK"))
        /\ call' =
            IF encodeError = "AOM_CODEC_OK"
            THEN [call EXCEPT !.flushed = FALSE, !.others = 0, !.pc = "aom_codec_get_cx_data"]
            ELSE [call EXCEPT !.status = "EncodeFailed", !.pc = "aom_codec_destroy"]
    /\ UNCHANGED <<surface, decoders, imageHandle, imageInfo>>

\* a loop that flushes whenever no packet is there
FlushesAlways(flushed) == TRUE

\* whether the loop flushes the encoder when no packet is there: once
Flushes(flushed) == ~flushed

\* one turn of the packet loop of DoOnePass
DoOnePassPacket ==
    /\ At("aom_codec_get_cx_data")
    /\ \E pkt \in PacketKinds :
        /\ pkt = "other" => call.others < MaxOtherPackets
        /\ IF pkt = "none"
           THEN IF ~Flushes(call.flushed)
                THEN /\ log' = Append(log, Event("aom_codec_get_cx_data", 0, FALSE))
                     /\ call' = [call EXCEPT !.status = "EncodeFailed",
                                             !.pc = "aom_codec_destroy"]
                ELSE /\ log' = log \o <<Event("aom_codec_get_cx_data", 0, FALSE),
                                        Event("aom_codec_encode", 0, TRUE)>>
                     /\ call' = [call EXCEPT !.flushed = TRUE]
           ELSE IF pkt = "frame"
           THEN \E answer \in BOOLEAN, allocated \in BOOLEAN, sz \in FramePacketSizes :
                   LET done == U32(call.progressDone + 1)
                       buf  == call.allocated + 1
                       polled == log \o <<Event("aom_codec_get_cx_data", sz, TRUE),
                                          Event("progressCallback", done, answer)>>
                   IN  IF ~answer
                       THEN /\ log' = polled
                            /\ call' = [call EXCEPT !.progressDone = done,
                                                    !.status = "UserCancelled",
                                                    !.pc = "aom_codec_destroy"]
                       ELSE IF ~allocated
                       THEN /\ log' = Append(polled, Event("Allocate", 0, FALSE))
                            /\ call' = [call EXCEPT !.progressDone = done,
                                                    !.output.buf = NULL,
                                                    !.status = "OutOfMemory",
                                                    !.pc = "aom_codec_destroy"]
                       ELSE /\ log' = Append(polled, Event("Allocate", buf, TRUE))
                            /\ call' = [call EXCEPT !.progressDone = done,
                                                    !.output = [buf |-> Ptr(buf), sz |-> sz],
                                                    !.heap = @ \cup {buf},
                                                    !.allocated = buf,
                                                    !.pc = "aom_codec_destroy"]
           ELSE /\ log' = Append(log, Event("aom_codec_get_cx_data", 0, TRUE))
                /\ call' = [call EXCEPT !.others = @ + 1]
    /\ UNCHANGED <<surface, decoders, imageHandle, imageInfo>>

\* aom_codec_destroy and the return of DoOnePass into EncodeAOMImage, which
\* stores the output of a pass that ended with Ok
DoOnePassDestroy ==
    /\ At("aom_codec_destroy")
    /\ log' = Append(log, Event("aom_codec_destroy", 0, TRUE))
    /\ call' =
        LET stored ==
                IF call.status # "Ok" THEN call.out
                ELSE IF call.alpha
                THEN [call.out EXCEPT !.compressedAlphaImage = call.output.buf,
                                      !.compressedAlphaImageSize = call.output.sz]
                ELSE [call.out EXCEPT !.compressedColorImage = call.output.buf,
                                      !.compressedColorImageSize = call.output.sz]
        IN  [call EXCEPT !.codec = FALSE, !.out = stored, !.pc = "aom_img_free"]
    /\ UNCHANGED <<surface, decoders, imageHandle, imageInfo>>

\* a return of EncodeYUVAImage that leaves the frame allocated
EncodeYUVAImageNoFree ==
    /\ At("aom_img_free")
    /\ call' = [call EXCEPT !.pc = "CompressYUVAImage"]
    /\ UNCHANGED <<surface, decoders, imageHandle, imageInfo, log>>

\* aom_img_free(frame) and the return of EncodeYUVAImage
EncodeYUVAImageFree ==
    /\ At("aom_img_free")
    /\ log' = Append(log, Event("aom_img_free", 0, TRUE))
    /\ call' = [call EXCEPT !.frame = NULL, !.pc = "CompressYUVAImage"]
    /\ UNCHANGED <<surface, decoders, imageHandle, imageInfo>>

\* CompressYUVAImage after a call of EncodeYUVAImage
CompressYUVAImageNext ==
    /\ At("CompressYUVAImage")
    /\ IF ~call.alpha
       THEN /\ call' = IF /\ call.status = "Ok"
                          /\ call.given.compressedAlphaImage
                          /\ call.given.compressedAlphaImageSize
                       THEN [call EXCEPT !.alpha = TRUE, !.pc = "EncodeYUVAImage"]
                       ELSE [call EXCEPT !.pc = "returned"]
            /\ UNCHANGED log
       ELSE IF call.status = "UserCancelled"
       THEN /\ log' = Append(log, Event("Free", Deref(call.out.compressedColorImage), TRUE))
            /\ call' = [call EXCEPT !.out.compressedColorImage = NULL,
                                    !.out.compressedColorImageSize = 0,
                                    !.heap = @ \ {Deref(call.out.compressedColorImage)},
                                    !.pc = "returned"]
       ELSE /\ call' = [call EXCEPT !.pc = "returned"]
            /\ UNCHANGED log
    /\ UNCHANGED <<surface, decoders, imageHandle, imageInfo>>

NextYUVA ==
    \/ CallCompressYUVAImage
    \/ CompressYUVAImageProgress
    \/ EncodeYUVAImageAlloc
    \/ EncodeAOMImageConfig
    \/ DoOnePassInitialize
    \/ DoOnePassEncode
    \/ DoOnePassPacket
    \/ DoOnePassDestroy
    \/ EncodeYUVAImageFree
    \/ CompressYUVAImageNext

SpecYUVA == InitYUVA /\ [][NextYUVA]_vars

\* the encoder answers every call and the program takes every step it can
SpecYUVAFair == SpecYUVA /\ WF_vars(NextYUVA)

-----------------------------------------------------------------------------
(* Properties of CompressYUVAImage, checked under SpecYUVA and SpecYUVAFair *)

\* the number of calls of e in log that succeeded (ok) or failed
Calls(e, ok) == Cardinality({i \in DOMAIN log : log[i].e = e /\ log[i].ok = ok})

\* C24: every transient resource of the encode path is released exactly once
\* before the call that acquired it returns, on every return path: the frame
\* EncodeYUVAImage allocates is freed, and the codec context of DoOnePass is
\* destroyed exactly when its initialisation succeeded
C24_ReleasedExactlyOnce ==
    /\ [](call.op = "CompressYUVAImage" =>
            /\ Calls("aom_img_alloc", TRUE) - Calls("aom_img_free", TRUE)
                    = IF call.frame # NULL THEN 1 ELSE 0
            /\ Calls("aom_codec_enc_init", TRUE) - Calls("aom_codec_destroy", TRUE)
                    = IF call.codec THEN 1 ELSE 0
            /\ call.pc = "aom_img_free" => ~call.codec
            /\ call.pc \in {"CompressYUVAImage", "returned"} =>
                    call.frame = NULL /\ ~call.codec)
    /\ (call.op = "CompressYUVAImage" /\ call.frame # NULL)
            ~> (At("CompressYUVAImage") /\ call.frame = NULL)
    /\ (call.op = "CompressYUVAImage" /\ call.codec)
            ~> (At("aom_img_free") /\ ~call.codec)

\* a call returned EncodeFailed from the alpha pass: two frames were
\* allocated and freed, two contexts initialised and destroyed
C24_Witness ==
    /\ At("returned")
    /\ call.status = "EncodeFailed"
    /\ call.alpha
    /\ Calls("aom_img_alloc", TRUE) = 2
    /\ Calls("aom_img_free", TRUE) = 2
    /\ Calls("aom_codec_enc_init", TRUE) = 2
    /\ Calls("aom_codec_destroy", TRUE) = 2

\* CompressYUVAImage returned after passing its null-pointer checks
ReturnedPastChecks == At("returned") /\ call.status # "NullParameter"

\* C26: whenever CompressYUVAImage returns a status other than Ok after
\* passing its null-pointer checks the caller holds no compressed buffer: the
\* colour outputs are null and 0, the alpha outputs too when they are
\* supplied, a colour buffer allocated before a failing alpha encode is freed
\* for every failure status, and both colour outputs are reset on entry
C26_FailureHoldsNoBuffer ==
    /\ At("progressCallback") =>
            /\ call.out.compressedColorImage = NULL
            /\ call.out.compressedColorImageSize = 0
    /\ (ReturnedPastChecks /\ call.status # "Ok") =>
            /\ call.out.compressedColorImage = NULL
            /\ call.out.compressedColorImageSize = 0
            /\ (call.given.compressedAlphaImage /\ call.given.compressedAlphaImageSize) =>
                    /\ call.out.compressedAlphaImage = NULL
                    /\ call.out.compressedAlphaImageSize = 0
            /\ call.heap = {}

\* the alpha pass of the call filled a frame
AlphaFilled == \E i \in DOMAIN log : log[i].e = "FillAOMImage" /\ log[i].n = 1

\* C27: CompressYUVAImage runs the alpha encode only for an image that has an
\* alpha plane: for an image whose HasAlphaChannel() is false the alpha
\* sub-image is never encoded and no alpha row pointer is read, even when the
\* caller supplies the alpha output pointers; for an image with an alpha
\* plane, missing alpha output pointers yield NullParameter
C27_AlphaOnlyWithAlphaPlane ==
    call.op = "CompressYUVAImage" =>
        /\ ~HasAlphaChannel(call.image) => (~call.alpha /\ ~AlphaFilled)
        /\ (/\ HasAlphaChannel(call.image)
            /\ call.given.compressedColorImage /\ call.given.compressedColorImageSize
            /\ ~(call.given.compressedAlphaImage /\ call.given.compressedAlphaImageSize)) =>
                (At("returned") /\ call.status = "NullParameter" /\ log = <<>>)

\* the colour pass holds the frame FillAOMImage filled from a 4:2:0 image
ColorFrameFilled420 ==
    /\ call.op = "CompressYUVAImage"
    /\ call.frame # NULL
    /\ ~call.alpha
    /\ call.image.format = "I420"

\* the rows of a plane of the frame that hold a row of the image
CopiedRows(plane) ==
    {y \in DOMAIN Deref(call.frame).planes[plane] :
        Deref(call.frame).planes[plane][y] = <<plane, y>>}

\* C28: for a 4:2:0 YUVAImage of any height, odd heights included,
\* FillAOMImage copies every chroma row the image holds into the codec frame:
\* the number of U and V rows copied is the number of chroma rows
\* YUVAImage::Initialize allocated, (height + 1) / 2
C28_EveryChromaRowCopied ==
    ColorFrameFilled420 =>
        /\ CopiedRows("U") = DOMAIN Deref(call.image.uPlane)
        /\ CopiedRows("V") = DOMAIN Deref(call.image.vPlane)
        /\ Cardinality(CopiedRows("U")) = (call.image.height + 1) \div 2
        /\ Cardinality(CopiedRows("V")) = (call.image.height + 1) \div 2

\* the entry of log that is k entries before the last
LogBack(k) == log[Len(log) - k]

\* DoOnePass has left its packet loop
LoopLeft == At("aom_codec_destroy") /\ LogBack(0).e # "aom_codec_encode"

\* the encoder has answered every poll of the pass with no packet or with a
\* frame packet
FramePacketsOnly == call.op = "CompressYUVAImage" /\ call.others = 0

\* C29: after the frame was submitted the packet loop of DoOnePass flushes
\* the encoder at most once and terminates when every poll gives no packet
\* or a frame packet; it ends with Ok only if a frame packet was obtained,
\* the progress callback answered true and the buffer was allocated, and then
\* output.buf is not null and output.sz is the size of the packet; it ends
\* with EncodeFailed if there is no packet before and after the one flush
C29_PacketLoop ==
    /\ [](call.op = "CompressYUVAImage" =>
            Cardinality({i \in DOMAIN log : log[i] = Event("aom_codec_encode", 0, TRUE)})
                <= Cardinality({i \in DOMAIN log : log[i] = Event("aom_codec_encode", 1, TRUE)}))
    /\ []((LoopLeft /\ FramePacketsOnly /\ call.status = "Ok") =>
            /\ LogBack(2) = Event("aom_codec_get_cx_data", call.output.sz, TRUE)
            /\ call.output.sz \in FramePacketSizes
            /\ LogBack(1) = Event("progressCallback", call.progressDone, TRUE)
            /\ LogBack(0).e = "Allocate" /\ LogBack(0).ok
            /\ call.output.buf = Ptr(LogBack(0).n)
            /\ LogBack(0).n \in call.heap)
    /\ []((LoopLeft /\ FramePacketsOnly) =>
            (call.status = "EncodeFailed"
                <=> /\ LogBack(0) = Event("aom_codec_get_cx_data", 0, FALSE)
                    /\ LogBack(1) = Event("aom_codec_encode", 0, TRUE)
                    /\ LogBack(2) = Event("aom_codec_get_cx_data", 0, FALSE)))
    /\ (At("aom_codec_get_cx_data") /\ FramePacketsOnly)
            ~> (At("aom_codec_destroy") \/ ~FramePacketsOnly)

\* the first poll gave no packet, the encoder was flushed, and the frame
\* packet of the second poll was copied into the output
C29_Witness ==
    /\ LoopLeft
    /\ FramePacketsOnly
    /\ call.status = "Ok"
    /\ call.flushed
    /\ call.output.buf # NULL
    /\ LogBack(3) = Event("aom_codec_encode", 0, TRUE)

\* the positions in log of the calls of the progress callback, and of those
\* it answered with false
Callbacks == {i \in DOMAIN log : log[i].e = "progressCallback"}
Refusals == {i \in Callbacks : ~log[i].ok}

\* the calls that convert pixels, drive the encoder or allocate
WorkCalls ==
    {"aom_img_alloc", "FillAOMImage", "aom_codec_enc_init", "aom_codec_encode",
     "aom_codec_get_cx_data", "Allocate"}

====
